---------------------------- MODULE Spec2Model ----------------------------
(***************************************************************************)
(* A model of rusty_winapi: the BSTR wrapper (auto_bstr.rs, safe/bstr.rs), *)
(* the VARIANT bridge (smart_variant.rs), the COM interface handle         *)
(* (auto_com_interface.rs, smart_iunknown.rs, smart_iclassfactory.rs) and  *)
(* the IDispatch helpers (smart_idispatch.rs).                             *)
(*                                                                         *)
(* The foreign side (oleaut32's BSTR allocator, the COM objects behind the *)
(* interface pointers) is modelled by what its ABI contract says: its      *)
(* outcomes are drawn with \E in the actions.  Every operation of the      *)
(* library is one action: the helper operators below thread a "world"      *)
(* record (the BSTR heap, the SysFreeString count per handle, the foreign  *)
(* calls made so far in this operation) through the statements of the Rust *)
(* code in their order, destructors included.                              *)
(***************************************************************************)
EXTENDS Integers, Sequences, FiniteSets, TLC

\* ------------------------------------------------------------------ bounds
MaxHandles == 2     \* BSTR buffers the foreign allocator can hand out
MaxTextLen == 1     \* longest Rust string drawn as an input
MaxWrappers == 1    \* AutoBSTR values alive at once
MaxObjects == 1     \* foreign COM objects
MaxRefs == 2        \* reference counts the foreign side hands over per object
MaxIfaces == 2      \* AutoCOMInterface values alive at once
MaxValues == 2      \* SmartVariant values alive at once
MaxArgs == 2        \* longest argument list passed to invoke

\* --------------------------------------------------------------- constants
NULL == 0           \* the null pointer / null BSTR

VARIABLES
    heap,       \* BSTR heap: handle -> [st, data]
    freeCalls,  \* handle -> number of SysFreeString calls made on it
    refCount,   \* object -> its foreign reference count
    adopted,    \* object -> counts handed over to this library
    released,   \* object -> Release calls this library made
    events,     \* the foreign calls of the last operation, in order
    lastOp,     \* the last operation: its name, inputs and result
    bstrs,      \* the AutoBSTR values alive: slot -> [live, ptr]
    raw,        \* raw BSTRs whose free-obligation the caller holds
    ifaces,     \* the AutoCOMInterface values alive: slot -> [live, ptr]
    values,     \* the SmartVariant values alive: slot -> [live, v]
    variants    \* the AutoVariant values alive: slot -> [live, var, from]

foreignVars == <<heap, freeCalls, refCount, released, events>>
vars == <<heap, freeCalls, refCount, adopted, released, events, lastOp,
          bstrs, raw, ifaces, values, variants>>

Handles == 1..MaxHandles
Slots == 1..MaxWrappers
Objects == 1..MaxObjects
USlots == {1}         \* a conversion holds one AutoVariant at a time
ISlots == 1..MaxIfaces
VSlots == 1..MaxValues

\* ----------------------------------------------------------------- UTF-16
\* Unicode scalar values drawn for Rust strings: NUL, 'A', U+1F600.
Chars == {0, 65, 128512}

RECURSIVE SeqsUpTo(_, _)
SeqsUpTo(S, n) ==
    IF n = 0 THEN {<<>>}
    ELSE LET shorter == SeqsUpTo(S, n - 1)
         IN  shorter \cup {Append(s, x) : s \in {t \in shorter : Len(t) = n - 1}, x \in S}

Texts == SeqsUpTo(Chars, MaxTextLen)

IsHighSurrogate(u) == u >= 55296 /\ u <= 56319
IsLowSurrogate(u) == u >= 56320 /\ u <= 57343

\* char::encode_utf16: one unit for the BMP, a surrogate pair above it.
EncodeChar(c) ==
    IF c < 65536 THEN <<c>>
    ELSE <<55296 + ((c - 65536) \div 1024), 56320 + ((c - 65536) % 1024)>>

\* str::encode_utf16().collect()
RECURSIVE encode_utf16(_)
encode_utf16(s) ==
    IF s = <<>> THEN <<>> ELSE EncodeChar(Head(s)) \o encode_utf16(Tail(s))

\* String::from_utf16_lossy: pairs decode, an unpaired surrogate gives U+FFFD.
RECURSIVE from_utf16_lossy(_)
from_utf16_lossy(u) ==
    IF u = <<>> THEN <<>>
    ELSE IF IsHighSurrogate(u[1]) /\ Len(u) >= 2 /\ IsLowSurrogate(u[2])
         THEN <<65536 + (u[1] - 55296) * 1024 + (u[2] - 56320)>>
              \o from_utf16_lossy(SubSeq(u, 3, Len(u)))
    ELSE IF IsHighSurrogate(u[1]) \/ IsLowSurrogate(u[1])
         THEN <<65533>> \o from_utf16_lossy(Tail(u))
    ELSE <<u[1]>> \o from_utf16_lossy(Tail(u))

\* ------------------------------------------------------- the foreign heap
\* The world an operation runs in.
World == [heap |-> heap, frees |-> freeCalls, refs |-> refCount, rels |-> released,
          log |-> <<>>]

Logged(w, e, p) == [w EXCEPT !.log = Append(@, [ev |-> e, h |-> p])]

\* A read through a freed pointer is undefined behaviour: the units may still
\* be there, or the allocator may have overwritten them (0xFEEE is the fill of
\* the Windows debug heap).
UBOutcomes == {"intact", "clobbered"}
Clobbered(data) == [i \in 1..Len(data) |-> 65262]

\* oleaut32 SysFreeString: NULL is a no-op; a live buffer is released.
SysFreeString(w, bstr) ==
    LET w1 == Logged(w, "SysFreeString", bstr)
    IN  IF bstr = NULL THEN w1
        ELSE [w1 EXCEPT !.heap[bstr] = [st |-> "freed", data |-> <<>>],
                        !.frees[bstr] = @ + 1]

\* oleaut32 SysStringLen: the length prefix, 0 for NULL.
SysStringLen(w, bstr) == IF bstr = NULL THEN 0 ELSE Len(w.heap[bstr].data)

\* What the foreign allocator may answer: NULL (exhausted) or the next buffer.
FreshHandles(w) ==
    LET free == {h \in Handles : w.heap[h].st = "unalloc"}
    IN  {NULL} \cup (IF free = {} THEN {}
                     ELSE {CHOOSE h \in free : \A g \in free : h <= g})

\* oleaut32 SysAllocStringLen answering `fresh`.
ForeignAlloc(w, data, fresh) ==
    LET w1 == Logged(w, "SysAllocStringLen", fresh)
    IN  IF fresh = NULL THEN w1
        ELSE [w1 EXCEPT !.heap[fresh] = [st |-> "live", data |-> data]]

\* A source slice &[u16]: the byte address of its first unit and its units
\* (data).  A slice of more than u32::MAX units is `long`: data are its first
\* units, and non-zero units follow them up to a length no u32 holds.
Slice(data) == [addr |-> 0, data |-> data, long |-> FALSE]
\* u32::try_from(src.len()) is Err, src.len() > u32::MAX
TooLong(src) == src.long
Terminated(src) == \E i \in 1..Len(src.data) : src.data[i] = 0
\* The units before the first 0: what a foreign call copies from a psz.
UpToTerminator(src) ==
    LET first == CHOOSE i \in 1..Len(src.data) :
                    src.data[i] = 0 /\ \A j \in 1..(i - 1) : src.data[j] # 0
    IN  SubSeq(src.data, 1, first - 1)

Failed(w, e) == [w |-> w, ok |-> FALSE, err |-> e, val |-> NULL]
Allocated(w, bstr) == [w |-> w, ok |-> TRUE, err |-> "", val |-> bstr]

\* oleaut32 SysAllocString answering `fresh`: the units up to the first 0.
ForeignAllocString(w, src, fresh) ==
    LET w1 == Logged(w, "SysAllocString", fresh)
    IN  IF fresh = NULL THEN w1
        ELSE [w1 EXCEPT !.heap[fresh] = [st |-> "live", data |-> UpToTerminator(src)]]

\* safe::bstr::SysAllocStringLen
SysAllocStringLen(w, src, fresh) ==
    IF TooLong(src) THEN Failed(w, "SourceStringTooLongError")
    ELSE IF fresh = NULL
    THEN Failed(ForeignAlloc(w, src.data, fresh), "NullTerminatedStringRequiredError")
    ELSE Allocated(ForeignAlloc(w, src.data, fresh), fresh)

\* SysAllocString without the check for a terminator: the foreign call reads
\* on to whatever 0 follows the slice (here: copies the slice).
SysAllocString_unchecked(w, src, fresh) ==
    IF fresh = NULL
    THEN Failed(Logged(w, "SysAllocString", fresh), "BStrAllocationError")
    ELSE Allocated(IF Terminated(src) THEN ForeignAllocString(w, src, fresh)
                   ELSE [Logged(w, "SysAllocString", fresh) EXCEPT
                            !.heap[fresh] = [st |-> "live", data |-> src.data]], fresh)

\* safe::bstr::SysAllocString
SysAllocString(w, src, fresh) ==
    IF ~Terminated(src) THEN Failed(w, "NullTerminatedStringRequiredError")
    ELSE IF fresh = NULL
    THEN Failed(ForeignAllocString(w, src, fresh), "BStrAllocationError")
    ELSE Allocated(ForeignAllocString(w, src, fresh), fresh)

\* The byte address a handle points to (its first code unit): the buffers lie
\* apart.  The buffer of a BSTR is a 4-byte length, the units and a 2-byte 0.
Addr(bstr) == 64 * bstr

\* safe::bstr::bstr_src_intersection
bstr_src_intersection(w, bstr, src) ==
    IF (Len(src.data) = 0 /\ ~src.long) \/ TooLong(src) \/ bstr = NULL THEN FALSE
    ELSE LET bstr_start_ptr == Addr(bstr) - 4
             bstr_end_ptr == bstr_start_ptr + 4 + SysStringLen(w, bstr) * 2 + 1 * 2 - 1
             src_start_ptr == src.addr
             src_end_ptr == src_start_ptr + Len(src.data) * 2 - 1
         IN  \/ (bstr_start_ptr <= src_start_ptr /\ src_start_ptr <= bstr_end_ptr)
             \/ (src_start_ptr <= bstr_start_ptr /\ bstr_start_ptr <= src_end_ptr)

\* What oleaut32 SysReAllocString / SysReAllocStringLen may do with a live
\* buffer: fail and leave it, rewrite it in place, or move it to a new buffer
\* and release the old one.
ReAllocAnswers(w) ==
    {"fail", "inplace"} \cup (IF \E h \in Handles : w.heap[h].st = "unalloc"
                              THEN {"moved"} ELSE {})

ForeignReAlloc(w, name, bstr, data, ans) ==
    LET w1 == Logged(w, name, bstr)
        fresh == CHOOSE h \in Handles :
                    w.heap[h].st = "unalloc"
                    /\ \A g \in Handles : w.heap[g].st = "unalloc" => h <= g
    IN  IF ans = "fail" THEN Failed(w1, "BStrAllocationError")
        ELSE IF ans = "inplace"
        THEN Allocated([w1 EXCEPT !.heap[bstr] = [st |-> "live", data |-> data]], bstr)
        ELSE Allocated([w1 EXCEPT !.heap[fresh] = [st |-> "live", data |-> data],
                                  !.heap[bstr] = [st |-> "freed", data |-> <<>>]], fresh)

\* safe::bstr::SysReAllocString
SysReAllocString(w, bstr, src, ans) ==
    IF bstr = NULL THEN Failed(w, "InvalidPointerError")
    ELSE IF ~Terminated(src) THEN Failed(w, "NullTerminatedStringRequiredError")
    ELSE IF bstr_src_intersection(w, bstr, src) THEN Failed(w, "InvalidPointerError")
    ELSE ForeignReAlloc(w, "SysReAllocString", bstr, UpToTerminator(src), ans)

\* safe::bstr::SysReAllocStringLen
SysReAllocStringLen(w, bstr, src, ans) ==
    IF TooLong(src) THEN Failed(w, "SourceStringTooLongError")
    ELSE IF bstr = NULL THEN Failed(w, "InvalidPointerError")
    ELSE IF bstr_src_intersection(w, bstr, src) THEN Failed(w, "InvalidPointerError")
    ELSE ForeignReAlloc(w, "SysReAllocStringLen", bstr, src.data, ans)

\* --------------------------------------------------------------- AutoBSTR
\* impl Drop for AutoBSTR
AutoBSTR_drop(w, bstr) == SysFreeString(w, bstr)

\* AutoBSTR::free(mut self): frees, nulls the cell, then self is dropped.
AutoBSTR_free(w, bstr) == AutoBSTR_drop(SysFreeString(w, bstr), NULL)

\* impl TryFrom<&str> for AutoBSTR
AutoBSTR_try_from_str(w, x, fresh) == SysAllocStringLen(w, Slice(encode_utf16(x)), fresh)

\* From<AutoBSTR> for BSTR without `x.0.set(NULL)`: the drop of x then frees the
\* handle it has just given away.
AutoBSTR_into_BSTR_cell_kept(w, bstr) == [w |-> AutoBSTR_drop(w, bstr), val |-> bstr]

\* impl From<AutoBSTR> for BSTR: takes the pointer, nulls the cell, drops x.
AutoBSTR_into_BSTR(w, bstr) == [w |-> AutoBSTR_drop(w, NULL), val |-> bstr]

\* impl TryFrom<AutoBSTR> for &[u16]: the slice is made from the raw pointer and
\* the length prefix, and x is dropped when try_from returns.
AutoBSTR_try_into_slice(w, bstr) ==
    IF bstr # NULL
    THEN [w |-> AutoBSTR_drop(w, bstr), ok |-> TRUE,
          ptr |-> bstr, len |-> SysStringLen(w, bstr)]
    ELSE [w |-> AutoBSTR_drop(w, NULL), ok |-> FALSE, ptr |-> NULL, len |-> 0]

\* Reading the units of a slice made by from_raw_parts (an empty slice reads
\* nothing).
ReadSlice(w, before, ptr, len, ub) ==
    LET alive == w.heap[ptr].st = "live"
        data == IF alive THEN w.heap[ptr].data
                ELSE IF ub = "intact" THEN before ELSE Clobbered(before)
    IN  IF len = 0 THEN [w |-> w, data |-> <<>>]
        ELSE [w |-> Logged(w, IF alive THEN "read" ELSE "read_freed", ptr),
              data |-> SubSeq(data, 1, len)]

\* impl From<AutoBSTR> for String
AutoBSTR_into_String(w, bstr, ub) ==
    IF bstr = NULL
    THEN [w |-> AutoBSTR_drop(w, NULL), val |-> <<>>]
    ELSE LET s == AutoBSTR_try_into_slice(w, bstr)
             r == ReadSlice(s.w, w.heap[bstr].data, s.ptr, s.len, ub)
         IN  [w |-> r.w, val |-> from_utf16_lossy(r.data)]


\* ---------------------------------------------------------------- HRESULT
S_OK == 0
E_POINTER == -2147467261
\* S_OK, S_FALSE; E_NOINTERFACE, DISP_E_EXCEPTION
SuccessCodes == {S_OK, 1}
FailureCodes == {-2147467262, -2147352567}
HResults == SuccessCodes \cup FailureCodes

\* winerror::SUCCEEDED
SUCCEEDED(hr) == hr >= 0

\* --------------------------------------------------------------- IUnknown
\* The foreign side hands out a pointer that carries a fresh count.
HandOver(w, p) == IF p = NULL THEN w ELSE [w EXCEPT !.refs[p] = @ + 1]

\* IUnknown::AddRef
AddRef(w, p) == [Logged(w, "AddRef", p) EXCEPT !.refs[p] = @ + 1]

\* IUnknown::Release (on an object whose count is gone the call is undefined)
Release(w, p) ==
    [Logged(w, "Release", p) EXCEPT !.refs[p] = IF @ > 0 THEN @ - 1 ELSE 0,
                                    !.rels[p] = @ + 1]

\* ---------------------------------------------------------------- VARIANT
VT_EMPTY == 0
VT_I2 == 2
VT_I4 == 3
VT_R4 == 4
VT_R8 == 5
VT_DATE == 7
VT_BSTR == 8
VT_DISPATCH == 9
VT_ERROR == 10
VT_BOOL == 11
VT_VARIANT == 12
VT_UNKNOWN == 13
VT_I1 == 16
VT_UI1 == 17
VT_UI2 == 18
VT_UI4 == 19
VT_INT == 22
VT_UINT == 23
VT_ARRAY == 8192
VT_BYREF == 16384

\* enum SmartVariant, beside the discriminant each variant is bridged to
VariantTable ==
    { <<"Empty", VT_EMPTY>>, <<"Int2", VT_I2>>, <<"Int4", VT_I4>>, <<"Real4", VT_R4>>,
      <<"Real8", VT_R8>>, <<"Date", VT_DATE>>, <<"Text", VT_BSTR>>,
      <<"IDispatch", VT_DISPATCH>>, <<"ErrorCode", VT_ERROR>>, <<"Bool", VT_BOOL>>,
      <<"Variant", VT_VARIANT>>, <<"IUnknown", VT_UNKNOWN>>, <<"Int1", VT_I1>>,
      <<"UInt1", VT_UI1>>, <<"UInt2", VT_UI2>>, <<"UInt4", VT_UI4>>, <<"Int", VT_INT>>,
      <<"UInt", VT_UINT>>, <<"Array", VT_ARRAY>>, <<"ByRef", VT_BYREF>> }

\* A SmartVariant: the variant and its payload, a number or pointer (val), a
\* bool (flag) or a String (text).
SV(tag, val) == [tag |-> tag, val |-> val, flag |-> FALSE, text |-> <<>>]
SBool(b) == [tag |-> "Bool", val |-> 0, flag |-> b, text |-> <<>>]
SText(t) == [tag |-> "Text", val |-> 0, flag |-> FALSE, text |-> t]
Empty == SV("Empty", 0)

\* VARIANT::default(): zeroed, vt == VT_EMPTY
VARIANT_default == [vt |-> VT_EMPTY, val |-> 0]

\* oleaut32 VariantClear: releases what the discriminant owns, leaves VT_EMPTY.
VariantClear(w, var) ==
    LET w1 == Logged(w, "VariantClear", var.vt)
    IN  IF var.vt = VT_BSTR THEN SysFreeString(w1, var.val)
        ELSE IF var.vt \in {VT_DISPATCH, VT_UNKNOWN} /\ var.val # NULL
             THEN Release(w1, var.val)
        ELSE w1

\* clear, were it to leave the discriminant as VariantClear found it
AutoVariant_clear_vt_kept(w, var) ==
    IF var.vt # VT_EMPTY
    THEN [w |-> VariantClear(w, var), var |-> var, hr |-> S_OK]
    ELSE [w |-> w, var |-> var, hr |-> S_OK]

\* AutoVariant::clear: the status is the one VariantClear answered (S_OK for
\* the unions drawn here), or 0 when there was nothing to clear.
AutoVariant_clear(w, var) ==
    IF var.vt # VT_EMPTY
    THEN [w |-> VariantClear(w, var), var |-> [var EXCEPT !.vt = VT_EMPTY], hr |-> S_OK]
    ELSE [w |-> w, var |-> var, hr |-> 0]

\* impl Drop for AutoVariant
AutoVariant_drop(w, var) == AutoVariant_clear(w, var).w

\* The constructing conversion, were it to take a count for an object it stores.
AutoVariant_from_SmartVariant_retaining(w, x, fresh) ==
    IF x.tag = "Text"
    THEN LET a == AutoBSTR_try_from_str(w, x.text, fresh)
         IN  IF a.ok
             THEN LET b == AutoBSTR_into_BSTR(a.w, a.val)
                  IN  [w |-> b.w, kind |-> "ok", var |-> [vt |-> VT_BSTR, val |-> b.val]]
             ELSE [w |-> AutoVariant_drop(a.w, [vt |-> VT_BSTR, val |-> NULL]),
                   kind |-> "panic", var |-> VARIANT_default]
    ELSE IF x.tag = "Bool"
    THEN [w |-> w, kind |-> "ok", var |-> [vt |-> VT_BOOL, val |-> IF x.flag THEN -1 ELSE 0]]
    ELSE IF x.tag = "Empty"
    THEN [w |-> w, kind |-> "ok", var |-> VARIANT_default]
    ELSE LET row == CHOOSE r \in VariantTable : r[1] = x.tag
         IN  [w |-> IF x.tag \in {"IDispatch", "IUnknown"} /\ x.val # NULL
                    THEN AddRef(w, x.val) ELSE w,
              kind |-> "ok", var |-> [vt |-> row[2], val |-> x.val]]

\* impl From<SmartVariant> for AutoVariant.  In the Text arm the discriminant is
\* written first; a failed allocation panics in unwrap() and `result` is dropped
\* while unwinding.
AutoVariant_from_SmartVariant(w, x, fresh) ==
    IF x.tag = "Text"
    THEN LET a == AutoBSTR_try_from_str(w, x.text, fresh)
         IN  IF a.ok
             THEN LET b == AutoBSTR_into_BSTR(a.w, a.val)
                  IN  [w |-> b.w, kind |-> "ok", var |-> [vt |-> VT_BSTR, val |-> b.val]]
             ELSE [w |-> AutoVariant_drop(a.w, [vt |-> VT_BSTR, val |-> NULL]),
                   kind |-> "panic", var |-> VARIANT_default]
    ELSE IF x.tag = "Bool"
    THEN [w |-> w, kind |-> "ok", var |-> [vt |-> VT_BOOL, val |-> IF x.flag THEN -1 ELSE 0]]
    ELSE IF x.tag = "Empty"
    THEN [w |-> w, kind |-> "ok", var |-> VARIANT_default]
    ELSE LET row == CHOOSE r \in VariantTable : r[1] = x.tag
         IN  [w |-> w, kind |-> "ok", var |-> [vt |-> row[2], val |-> x.val]]

\* impl From<AutoVariant> for VARIANT: copies the union out, marks x empty, drops x.
VARIANT_from_AutoVariant(w, var) ==
    [w |-> AutoVariant_drop(w, [var EXCEPT !.vt = VT_EMPTY]), var |-> var]

\* impl From<SmartVariant> for VARIANT
VARIANT_from_SmartVariant(w, x, fresh) ==
    LET a == AutoVariant_from_SmartVariant(w, x, fresh)
    IN  IF a.kind = "ok"
        THEN LET v == VARIANT_from_AutoVariant(a.w, a.var)
             IN  [w |-> v.w, kind |-> "ok", var |-> v.var]
        ELSE a

\* The consuming conversion without the reset of the discriminant: x is dropped
\* as it came.
SmartVariant_from_AutoVariant_unreset(w, var, ub) ==
    LET vtype == var.vt
        w1 == Logged(w, "payload", vtype)
    IN  IF vtype = VT_BSTR
        THEN LET s == AutoBSTR_into_String(w1, var.val, ub)
             IN  [w |-> AutoVariant_drop(s.w, var), kind |-> "ok", val |-> SText(s.val)]
        ELSE IF vtype = VT_BOOL
        THEN [w |-> AutoVariant_drop(w1, var), kind |-> "ok", val |-> SBool(var.val = -1)]
        ELSE IF vtype = VT_EMPTY
        THEN [w |-> AutoVariant_drop(w, var), kind |-> "ok", val |-> Empty]
        ELSE IF \E r \in VariantTable : r[2] = vtype
        THEN LET row == CHOOSE r \in VariantTable : r[2] = vtype
             IN  [w |-> AutoVariant_drop(w1, var), kind |-> "ok", val |-> SV(row[1], var.val)]
        ELSE [w |-> AutoVariant_drop(w, var), kind |-> "panic", val |-> Empty]

\* The consuming conversion with `_ => SmartVariant::Empty` as its last arm.
SmartVariant_from_AutoVariant_coercing(w, var, ub) ==
    LET vtype == var.vt
        x == [var EXCEPT !.vt = VT_EMPTY]
        w0 == Logged(w, "vt_reset", vtype)
        w1 == Logged(w0, "payload", vtype)
    IN  IF vtype = VT_BSTR
        THEN LET s == AutoBSTR_into_String(w1, x.val, ub)
             IN  [w |-> AutoVariant_drop(s.w, x), kind |-> "ok", val |-> SText(s.val)]
        ELSE IF vtype = VT_BOOL
        THEN [w |-> AutoVariant_drop(w1, x), kind |-> "ok", val |-> SBool(x.val = -1)]
        ELSE IF \E r \in VariantTable : r[2] = vtype /\ vtype # VT_EMPTY
        THEN LET row == CHOOSE r \in VariantTable : r[2] = vtype
             IN  [w |-> AutoVariant_drop(w1, x), kind |-> "ok", val |-> SV(row[1], x.val)]
        ELSE [w |-> AutoVariant_drop(w0, x), kind |-> "ok", val |-> Empty]

\* impl From<AutoVariant> for SmartVariant: the discriminant is captured and
\* reset ("vt_reset"), the payload of the matching arm is read ("payload"), x
\* is dropped.
SmartVariant_from_AutoVariant(w, var, ub) ==
    LET vtype == var.vt
        x == [var EXCEPT !.vt = VT_EMPTY]
        w0 == Logged(w, "vt_reset", vtype)
        w1 == Logged(w0, "payload", vtype)
    IN  IF vtype = VT_BSTR
        THEN LET s == AutoBSTR_into_String(w1, x.val, ub)
             IN  [w |-> AutoVariant_drop(s.w, x), kind |-> "ok", val |-> SText(s.val)]
        ELSE IF vtype = VT_BOOL
        THEN [w |-> AutoVariant_drop(w1, x), kind |-> "ok", val |-> SBool(x.val = -1)]
        ELSE IF vtype = VT_EMPTY
        THEN [w |-> AutoVariant_drop(w0, x), kind |-> "ok", val |-> Empty]
        ELSE IF \E r \in VariantTable : r[2] = vtype
        THEN LET row == CHOOSE r \in VariantTable : r[2] = vtype
             IN  [w |-> AutoVariant_drop(w1, x), kind |-> "ok", val |-> SV(row[1], x.val)]
        ELSE [w |-> AutoVariant_drop(w0, x), kind |-> "panic", val |-> Empty]

\* impl From<VARIANT> for SmartVariant
SmartVariant_from_VARIANT(w, var, ub) == SmartVariant_from_AutoVariant(w, var, ub)

\* ------------------------------------------------------- AutoCOMInterface
\* impl TryFrom<*mut T> for AutoCOMInterface<T>
AutoCOMInterface_try_from(x) ==
    IF x # NULL THEN [ok |-> TRUE, ptr |-> x] ELSE [ok |-> FALSE, ptr |-> NULL]

\* unwrap without `self.0 = null_mut()`: the handle keeps the pointer it returns.
AutoCOMInterface_unwrap_kept(ptr) == [ret |-> ptr, ptr |-> ptr]

\* AutoCOMInterface::unwrap
AutoCOMInterface_unwrap(ptr) == [ret |-> ptr, ptr |-> NULL]

\* impl Drop for AutoCOMInterface<T>
AutoCOMInterface_drop(w, ptr) == IF ptr # NULL THEN Release(w, ptr) ELSE w

\* impl Default for AutoCOMInterface<T>
AutoCOMInterface_default == [ok |-> TRUE, ptr |-> NULL]

\* debug_assert!(self.0 != null_mut(), ..) is compiled in a build with debug
\* assertions and compiled out in a release build.
Builds == {"debug", "release"}
DebugAssertNonNull(ptr, build) == build = "debug" /\ ptr = NULL
Panicked == [kind |-> "panic", ref |-> NULL]
\* unsafe { &*self.0 }
Reference(ptr) == [kind |-> "ref", ref |-> ptr]

\* AutoCOMInterface::as_iunknown
AutoCOMInterface_as_iunknown(ptr, build) ==
    IF DebugAssertNonNull(ptr, build) THEN Panicked ELSE Reference(ptr)
\* AutoCOMInterface::as_iunknown_mut
AutoCOMInterface_as_iunknown_mut(ptr, build) ==
    IF DebugAssertNonNull(ptr, build) THEN Panicked ELSE Reference(ptr)
\* AutoCOMInterface::as_inner
AutoCOMInterface_as_inner(ptr, build) ==
    IF DebugAssertNonNull(ptr, build) THEN Panicked ELSE Reference(ptr)
\* AutoCOMInterface::as_inner_mut
AutoCOMInterface_as_inner_mut(ptr, build) ==
    IF DebugAssertNonNull(ptr, build) THEN Panicked ELSE Reference(ptr)
\* impl Deref for AutoCOMInterface<T>
AutoCOMInterface_deref(ptr, build) == Reference(ptr)
\* impl DerefMut for AutoCOMInterface<T>
AutoCOMInterface_deref_mut(ptr, build) == Reference(ptr)
\* impl AsRef<T> for AutoCOMInterface<T>
AutoCOMInterface_as_ref(ptr, build) == Reference(ptr)
\* impl AsMut<T> for AutoCOMInterface<T>
AutoCOMInterface_as_mut(ptr, build) == Reference(ptr)

AccessPaths == {"as_inner", "as_inner_mut", "as_iunknown", "as_iunknown_mut",
                "deref", "deref_mut", "as_ref", "as_mut"}
AccessBy(path, ptr, build) ==
    CASE path = "as_inner" -> AutoCOMInterface_as_inner(ptr, build)
      [] path = "as_inner_mut" -> AutoCOMInterface_as_inner_mut(ptr, build)
      [] path = "as_iunknown" -> AutoCOMInterface_as_iunknown(ptr, build)
      [] path = "as_iunknown_mut" -> AutoCOMInterface_as_iunknown_mut(ptr, build)
      [] path = "deref" -> AutoCOMInterface_deref(ptr, build)
      [] path = "deref_mut" -> AutoCOMInterface_deref_mut(ptr, build)
      [] path = "as_ref" -> AutoCOMInterface_as_ref(ptr, build)
      [] path = "as_mut" -> AutoCOMInterface_as_mut(ptr, build)

\* A method called through the reference an access gave.  Through a reference
\* made of a null pointer the call is undefined: it faults on the read of the
\* vtable, or it goes through.
NullCallOutcomes == {"fault", "called"}
CallThrough(w, r, nc) ==
    IF r.kind = "panic" THEN [w |-> w, kind |-> "panic"]
    ELSE IF r.ref = NULL /\ nc = "fault" THEN [w |-> w, kind |-> "fault"]
    ELSE [w |-> Logged(w, "call_through", r.ref), kind |-> "called"]

\* AutoCOMInterface::create_instance, after CoCreateInstance answered (hresult, pvoid)
AutoCOMInterface_create_instance(hresult, pvoid) ==
    IF SUCCEEDED(hresult) THEN [ok |-> TRUE, ptr |-> pvoid, err |-> S_OK]
    ELSE [ok |-> FALSE, ptr |-> NULL, err |-> hresult]

\* AutoCOMInterface::get_class_object, after CoGetClassObject answered
AutoCOMInterface_get_class_object(hresult, pvoid) ==
    IF SUCCEEDED(hresult) THEN [ok |-> TRUE, ptr |-> pvoid, err |-> S_OK]
    ELSE [ok |-> FALSE, ptr |-> NULL, err |-> hresult]

\* impl TryFrom<SmartVariant> for AutoCOMInterface<IUnknown> / <IDispatch>
AutoCOMInterface_try_from_SmartVariant(x, iface) ==
    IF x.tag = iface THEN AutoCOMInterface_try_from(x.val)
    ELSE [ok |-> FALSE, ptr |-> NULL]


\* SmartIClassFactory::create_instance: try_into().unwrap() panics on a null pointer
SmartIClassFactory_create_instance(hresult, pvoid) ==
    IF SUCCEEDED(hresult)
    THEN LET r == AutoCOMInterface_try_from(pvoid)
         IN  IF r.ok THEN [kind |-> "ok", ptr |-> r.ptr, err |-> S_OK]
             ELSE [kind |-> "panic", ptr |-> NULL, err |-> S_OK]
    ELSE [kind |-> "err", ptr |-> NULL, err |-> hresult]

\* SmartIUnknown::query_interface
\* query_interface, were it to wrap whatever pointer a success left
SmartIUnknown_query_interface_unchecked(hresult, pvoid) ==
    IF SUCCEEDED(hresult)
    THEN [kind |-> "ok", ptr |-> pvoid, err |-> S_OK]
    ELSE [kind |-> "err", ptr |-> NULL, err |-> hresult]

SmartIUnknown_query_interface(hresult, pvoid) ==
    IF SUCCEEDED(hresult)
    THEN LET r == AutoCOMInterface_try_from(pvoid)
         IN  IF r.ok THEN [kind |-> "ok", ptr |-> r.ptr, err |-> S_OK]
             ELSE [kind |-> "err", ptr |-> NULL, err |-> E_POINTER]
    ELSE [kind |-> "err", ptr |-> NULL, err |-> hresult]

\* #[derive(Clone)] on SmartVariant: a field-wise copy
SmartVariant_clone(x) == [tag |-> x.tag, val |-> x.val, flag |-> x.flag, text |-> x.text]


\* ---------------------------------------------------------- SmartIDispatch
DISPID_UNKNOWN == -1
DISPATCH_METHOD == 1
DISPATCH_PROPERTYGET == 2
DISPATCH_PROPERTYPUT == 4
VT_NULL == 1
VT_CY == 6
VT_DECIMAL == 14
VT_RECORD == 36

\* ------------------------------------------------- AutoVariant::value_set
\* The type a name stands for: DATE is f64, SCODE and INT are i32, UINT is u32
\* and the pointer names are raw pointer types; TypeId sees the type, not the
\* name.
TypeIdOf(ty) ==
    CASE ty = "DATE" -> "f64"
      [] ty \in {"SCODE", "INT"} -> "i32"
      [] ty = "UINT" -> "u32"
      [] ty = "BSTR" -> "*mut u16"
      [] ty = "LPDISPATCH" -> "*mut IDispatch"
      [] ty = "LPVARIANT" -> "*mut VARIANT"
      [] ty = "LPUNKNOWN" -> "*mut IUnknown"
      [] ty = "LPDECIMAL" -> "*mut DECIMAL"
      [] ty = "LPSAFEARRAY" -> "*mut SAFEARRAY"
      [] ty = "PVOID" -> "*mut c_void"
      [] OTHER -> ty

\* The branches of value_set in the order of the source: the type each
\* downcast_ref names and the discriminant it stores.
ValueSetBranches ==
    << <<"i16", VT_I2>>, <<"i32", VT_I4>>, <<"f32", VT_R4>>, <<"f64", VT_R8>>,
       <<"CY", VT_CY>>, <<"DATE", VT_DATE>>, <<"BSTR", VT_BSTR>>,
       <<"LPDISPATCH", VT_DISPATCH>>, <<"SCODE", VT_ERROR>>, <<"bool", VT_BOOL>>,
       <<"LPVARIANT", VT_VARIANT>>, <<"LPUNKNOWN", VT_UNKNOWN>>,
       <<"LPDECIMAL", VT_DECIMAL>>, <<"i8", VT_I1>>, <<"u8", VT_UI1>>,
       <<"u16", VT_UI2>>, <<"u32", VT_UI4>>, <<"INT", VT_INT>>, <<"UINT", VT_UINT>>,
       <<"__tagBRECORD", VT_RECORD>>, <<"LPSAFEARRAY", VT_ARRAY>>,
       <<"PVOID", VT_BYREF>> >>

\* value.downcast_ref::<branch>() is Some
Downcasts(ty, branch) == TypeIdOf(ty) = TypeIdOf(branch)

\* The if-let chain: the first branch whose downcast succeeds, 0 for the else.
FirstBranch(branches, ty) ==
    IF \E k \in 1..Len(branches) : Downcasts(ty, branches[k][1])
    THEN CHOOSE k \in 1..Len(branches) :
            /\ Downcasts(ty, branches[k][1])
            /\ \A j \in 1..(k - 1) : ~Downcasts(ty, branches[j][1])
    ELSE 0

\* What a branch stores: a bool (payload 1 for true, 0 for false) becomes
\* VARIANT_TRUE (-1) or VARIANT_FALSE (0), every other payload is copied; the
\* else branch stores VT_EMPTY and llVal 0.
Stored(branches, k, payload) ==
    IF k = 0 THEN [vt |-> VT_EMPTY, val |-> 0]
    ELSE IF branches[k][2] = VT_BOOL
    THEN [vt |-> VT_BOOL, val |-> IF payload = 1 THEN -1 ELSE 0]
    ELSE [vt |-> branches[k][2], val |-> payload]

\* self.clear(), then the chain over `branches`
ValueSetBy(branches, w, var, ty, payload) ==
    LET c == AutoVariant_clear(w, var)
        set == Stored(branches, FirstBranch(branches, ty), payload)
    IN  [w |-> Logged(c.w, "value_set", set.vt), var |-> set]

\* value_set with the DATE branch ahead of the f64 branch
AutoVariant_value_set_date_first(w, var, ty, payload) ==
    ValueSetBy(<<ValueSetBranches[6]>> \o ValueSetBranches, w, var, ty, payload)

\* AutoVariant::value_set
AutoVariant_value_set(w, var, ty, payload) ==
    ValueSetBy(ValueSetBranches, w, var, ty, payload)

\* The answer of the foreign allocator to the next allocation of an operation:
\* NULL when it is the failAt-th one or no buffer is left, else the next buffer.
AllocCount(w) == Cardinality({i \in 1..Len(w.log) : w.log[i].ev = "SysAllocStringLen"})
FreshFor(w, failAt) ==
    LET free == {h \in Handles : w.heap[h].st = "unalloc"}
    IN  IF free = {} \/ AllocCount(w) + 1 = failAt THEN NULL
        ELSE CHOOSE h \in free : \A g \in free : h <= g

\* A buffer the callee allocates for an out value (not a call of this library).
CalleeAlloc(w, data) ==
    LET free == {h \in Handles : w.heap[h].st = "unalloc"}
        h == CHOOSE x \in free : \A g \in free : x <= g
    IN  [w |-> [w EXCEPT !.heap[h] = [st |-> "live", data |-> data]], val |-> h]

\* get_type_info_count testing `hresult == S_OK` in place of SUCCEEDED(hresult)
SmartIDispatch_get_type_info_count_strict(hresult, pctinfo) ==
    IF hresult = S_OK THEN [kind |-> "ok", val |-> pctinfo, err |-> S_OK]
    ELSE [kind |-> "err", val |-> 0, err |-> hresult]

\* SmartIDispatch::get_type_info_count, after GetTypeInfoCount answered
SmartIDispatch_get_type_info_count(hresult, pctinfo) ==
    IF SUCCEEDED(hresult) THEN [kind |-> "ok", val |-> pctinfo, err |-> S_OK]
    ELSE [kind |-> "err", val |-> 0, err |-> hresult]

\* SmartIDispatch::get_type_info, after GetTypeInfo answered: try_into().unwrap()
\* panics on a null pointer
SmartIDispatch_get_type_info(hresult, ptinfo) ==
    IF SUCCEEDED(hresult)
    THEN LET r == AutoCOMInterface_try_from(ptinfo)
         IN  IF r.ok THEN [kind |-> "ok", ptr |-> r.ptr, err |-> S_OK]
             ELSE [kind |-> "panic", ptr |-> NULL, err |-> S_OK]
    ELSE [kind |-> "err", ptr |-> NULL, err |-> hresult]

\* get_ids_of_names with rgDispId starting as vec![0; n]
SmartIDispatch_get_ids_of_names_zeroed(w, names, ans) ==
    LET cNames == Len(names)
        szNames == [i \in 1..cNames |-> encode_utf16(names[i]) \o <<0>>]
        rgDispId == [i \in 1..cNames |-> IF i \in DOMAIN ans.ids THEN ans.ids[i] ELSE 0]
    IN  [w |-> Logged(w, "GetIDsOfNames", cNames), ids |-> rgDispId, hr |-> ans.hr,
         szNames |-> szNames]

\* SmartIDispatch::get_ids_of_names: rgDispId starts as -1 everywhere, every name
\* is encoded with a trailing 0, and the foreign GetIDsOfNames writes the ids it
\* resolved (ans.ids, a function of the positions it wrote).
SmartIDispatch_get_ids_of_names(w, names, ans) ==
    LET cNames == Len(names)
        szNames == [i \in 1..cNames |-> encode_utf16(names[i]) \o <<0>>]
        rgDispId == [i \in 1..cNames |->
                        IF i \in DOMAIN ans.ids THEN ans.ids[i] ELSE DISPID_UNKNOWN]
    IN  [w |-> Logged(w, "GetIDsOfNames", cNames), ids |-> rgDispId, hr |-> ans.hr,
         szNames |-> szNames]

\* The same collection without rev(): params[1] is converted first and the
\* vector keeps the caller's order.
RECURSIVE CollectInOrder(_, _, _, _)
CollectInOrder(w, params, k, failAt) ==
    IF k = 0 THEN [w |-> w, kind |-> "ok", vec |-> <<>>]
    ELSE LET c == VARIANT_from_SmartVariant(w, SmartVariant_clone(params[Len(params) + 1 - k]),
                                            FreshFor(w, failAt))
         IN  IF c.kind # "ok" THEN [w |-> c.w, kind |-> "panic", vec |-> <<>>]
             ELSE LET rest == CollectInOrder(c.w, params, k - 1, failAt)
                  IN  [w |-> rest.w, kind |-> rest.kind,
                       vec |-> IF rest.kind = "ok" THEN <<c.var>> \o rest.vec ELSE <<>>]

\* params.iter().cloned().map(|x| x.into()).rev().collect(): rev() drives the
\* map from the back, so the closure runs on params[k] for k = n, n-1, .., 1 and
\* the vector is filled in that order.  A panic in a conversion unwinds.
RECURSIVE CollectRev(_, _, _, _)
CollectRev(w, params, k, failAt) ==
    IF k = 0 THEN [w |-> w, kind |-> "ok", vec |-> <<>>]
    ELSE LET c == VARIANT_from_SmartVariant(w, SmartVariant_clone(params[k]),
                                            FreshFor(w, failAt))
         IN  IF c.kind # "ok" THEN [w |-> c.w, kind |-> "panic", vec |-> <<>>]
             ELSE LET rest == CollectRev(c.w, params, k - 1, failAt)
                  IN  [w |-> rest.w, kind |-> rest.kind,
                       vec |-> IF rest.kind = "ok" THEN <<c.var>> \o rest.vec ELSE <<>>]

\* A string of the exception record: NULL (ex_info starts zeroed), or a buffer
\* the callee allocates.
CalleeText(w, text) ==
    IF text.set THEN CalleeAlloc(w, text.data) ELSE [w |-> w, val |-> NULL]

\* What the foreign Invoke leaves behind for answer `ans`: the result union
\* (a text result in a buffer of the callee), the strings of the exception
\* record (bstrDescription, bstrSource, bstrHelpFile) and puArgErr.
ForeignInvoke(w, ans) ==
    LET w0 == Logged(w, "Invoke", ans.hr)
        r  == IF ans.res.vt = VT_BSTR THEN CalleeAlloc(w0, ans.res.data)
              ELSE [w |-> w0, val |-> ans.res.val]
        d  == CalleeText(r.w, ans.desc)
        s  == CalleeText(d.w, ans.source)
        h  == CalleeText(s.w, ans.help)
    IN  [w |-> h.w, hr |-> ans.hr, result |-> [vt |-> ans.res.vt, val |-> r.val],
         bstrDescription |-> d.val, bstrSource |-> s.val, bstrHelpFile |-> h.val,
         arg |-> ans.arg]

BuffersNeeded(ans) ==
    Cardinality({k \in {"res", "desc", "source", "help"} :
                    \/ k = "res" /\ ans.res.vt = VT_BSTR
                    \/ k = "desc" /\ ans.desc.set
                    \/ k = "source" /\ ans.source.set
                    \/ k = "help" /\ ans.help.set})

NotInvoked ==
    [called |-> FALSE, dispid |-> DISPID_UNKNOWN, flags |-> 0, cArgs |-> 0, rgvarg |-> <<>>,
     cNamedArgs |-> 0, hresult |-> S_OK, bstrDescription |-> NULL, description |-> <<>>,
     bstrSource |-> NULL, bstrHelpFile |-> NULL,
     puArgErr |-> 0, result |-> VARIANT_default]

Returned(w, kind, val, hr, msg, arg, inv) ==
    [w |-> w, kind |-> kind, val |-> val, hr |-> hr, msg |-> msg, arg |-> arg, inv |-> inv]

\* What Invoke was called with and what it left behind.
DispParams(f, rgvarg, member_dispid, flags) ==
    [called |-> TRUE, dispid |-> member_dispid, flags |-> flags,
     cArgs |-> Len(rgvarg), rgvarg |-> rgvarg, cNamedArgs |-> 0,
     hresult |-> f.hr, bstrDescription |-> f.bstrDescription,
     bstrSource |-> f.bstrSource, bstrHelpFile |-> f.bstrHelpFile,
     description |-> IF f.bstrDescription = NULL THEN <<>>
                     ELSE f.w.heap[f.bstrDescription].data,
     puArgErr |-> f.arg, result |-> f.result]

\* Ok(result.into())
InvokeOk(r, inv) == Returned(r.w, r.kind, r.val, S_OK, <<>>, 0, inv)

\* Err((hresult, AutoBSTR::from(ex_info.bstrDescription).into(), arg))
InvokeErr(m, f, inv) == Returned(m.w, "err", Empty, f.hr, m.val, f.arg, inv)

\* invoke from the return of Invoke on
InvokeReturn(f, inv, ub) ==
    IF SUCCEEDED(f.hr)
    THEN InvokeOk(SmartVariant_from_VARIANT(f.w, f.result, ub), inv)
    ELSE InvokeErr(AutoBSTR_into_String(f.w, f.bstrDescription, ub), f, inv)

\* invoke calling Invoke a second time when the first call failed
InvokeAnswered_retrying(f, rgvarg, member_dispid, flags, ub) ==
    IF SUCCEEDED(f.hr)
    THEN InvokeReturn(f, DispParams(f, rgvarg, member_dispid, flags), ub)
    ELSE InvokeReturn([f EXCEPT !.w = Logged(f.w, "Invoke", f.hr)],
                      DispParams(f, rgvarg, member_dispid, flags), ub)

InvokeAnswered(f, rgvarg, member_dispid, flags, ub) ==
    InvokeReturn(f, DispParams(f, rgvarg, member_dispid, flags), ub)

\* invoke once rev_params is collected.  rev_params is a Vec<VARIANT>: dropping
\* it releases nothing the unions hold.
InvokeWith(rev, member_dispid, flags, ans, ub) ==
    IF rev.kind # "ok"
    THEN Returned(rev.w, "panic", Empty, S_OK, <<>>, 0, NotInvoked)
    ELSE IF Cardinality({h \in Handles : rev.w.heap[h].st = "unalloc"}) < BuffersNeeded(ans)
    THEN Returned(rev.w, "stuck", Empty, S_OK, <<>>, 0, NotInvoked)
    ELSE InvokeAnswered(ForeignInvoke(rev.w, ans), rev.vec, member_dispid, flags, ub)

\* SmartIDispatch::invoke
SmartIDispatch_invoke(w, member_dispid, flags, params, ans, failAt, ub) ==
    InvokeWith(CollectRev(w, params, Len(params), failAt), member_dispid, flags, ans, ub)

\* The first arm of the match in call/get/put is `(ids, S_OK)`.  No S_OK is in
\* scope in smart_idispatch.rs (it imports the module winerror, not its
\* constants, and the crate's glob imports re-export nothing), so S_OK is a
\* fresh binding there and the arm takes every status.
FirstArmTakes(hresult) == TRUE

ResolutionError(w, e) ==
    Returned(w, "err", Empty, e, <<103, 101, 116, 95, 105, 100, 115, 95, 111, 102, 95,
                                   110, 97, 109, 101, 115, 40, 41>>, 0, NotInvoked)

\* SmartIDispatch::call
SmartIDispatch_call(w, method, params, gans, ans, failAt, ub) ==
    LET g == SmartIDispatch_get_ids_of_names(w, <<method>>, gans)
    IN  IF FirstArmTakes(g.hr)
        THEN SmartIDispatch_invoke(g.w, g.ids[1], DISPATCH_METHOD, params, ans, failAt, ub)
        ELSE ResolutionError(g.w, g.hr)

\* SmartIDispatch::get
SmartIDispatch_get(w, property, gans, ans, failAt, ub) ==
    LET g == SmartIDispatch_get_ids_of_names(w, <<property>>, gans)
    IN  IF FirstArmTakes(g.hr)
        THEN SmartIDispatch_invoke(g.w, g.ids[1], DISPATCH_PROPERTYGET, <<>>, ans, failAt, ub)
        ELSE ResolutionError(g.w, g.hr)

\* put, were it to invoke with the method kind
SmartIDispatch_put_as_method(w, property, value, gans, ans, failAt, ub) ==
    LET g == SmartIDispatch_get_ids_of_names(w, <<property>>, gans)
    IN  IF FirstArmTakes(g.hr)
        THEN SmartIDispatch_invoke(g.w, g.ids[1], DISPATCH_METHOD, <<value>>, ans,
                                   failAt, ub)
        ELSE ResolutionError(g.w, g.hr)

\* SmartIDispatch::put
SmartIDispatch_put(w, property, value, gans, ans, failAt, ub) ==
    LET g == SmartIDispatch_get_ids_of_names(w, <<property>>, gans)
    IN  IF FirstArmTakes(g.hr)
        THEN SmartIDispatch_invoke(g.w, g.ids[1], DISPATCH_PROPERTYPUT, <<value>>, ans,
                                   failAt, ub)
        ELSE ResolutionError(g.w, g.hr)

\* ------------------------------------------------------------------- Init
NoOp == [op |-> "none"]

\* An AutoCOMInterface slot: the pointer it holds, and for the record the pointer
\* it was made with and whether unwrap() was called on it.
NoIface == [live |-> FALSE, ptr |-> NULL, origin |-> NULL, unwrapped |-> FALSE]
Iface(p) == [live |-> TRUE, ptr |-> p, origin |-> p, unwrapped |-> FALSE]
NoValue == [live |-> FALSE, v |-> Empty]
\* An AutoVariant slot: the raw union it holds, and for the record the
\* SmartVariant it was built from and whether it is still as built (not
\* cleared since, and not a wrapped foreign union).
NoVariant == [live |-> FALSE, var |-> VARIANT_default, from |-> Empty, built |-> FALSE]

Init ==
    /\ heap = [h \in Handles |-> [st |-> "unalloc", data |-> <<>>]]
    /\ freeCalls = [h \in Handles |-> 0]
    /\ refCount = [o \in Objects |-> 0]
    /\ adopted = [o \in Objects |-> 0]
    /\ released = [o \in Objects |-> 0]
    /\ events = <<>>
    /\ lastOp = NoOp
    /\ bstrs = [i \in Slots |-> [live |-> FALSE, ptr |-> NULL]]
    /\ raw = {}
    /\ ifaces = [i \in ISlots |-> NoIface]
    /\ values = [i \in VSlots |-> NoValue]
    /\ variants = [i \in USlots |-> NoVariant]

Commit(w) ==
    /\ heap' = w.heap
    /\ freeCalls' = w.frees
    /\ refCount' = w.refs
    /\ released' = w.rels
    /\ events' = w.log

Gone == [live |-> FALSE, ptr |-> NULL]
Holding(p) == [live |-> TRUE, ptr |-> p]

\* ------------------------------------------------- actions: AutoBSTR life
\* let b: AutoBSTR = text.try_into()
BstrTryFrom ==
    \E i \in Slots, x \in Texts, fresh \in FreshHandles(World) :
        /\ ~bstrs[i].live
        /\ LET r == AutoBSTR_try_from_str(World, x, fresh)
           IN  /\ Commit(r.w)
               /\ bstrs' = IF r.ok THEN [bstrs EXCEPT ![i] = Holding(r.val)] ELSE bstrs
               /\ lastOp' = [op |-> "try_from", text |-> x, ok |-> r.ok, err |-> r.err,
                             ptr |-> r.val]
        /\ UNCHANGED <<raw, adopted, ifaces, values, variants>>

\* AutoBSTR::default()
BstrDefault ==
    \E i \in Slots :
        /\ ~bstrs[i].live
        /\ bstrs' = [bstrs EXCEPT ![i] = Holding(NULL)]
        /\ lastOp' = [op |-> "default", ptr |-> NULL]
        /\ Commit(World)
        /\ UNCHANGED <<raw, adopted, ifaces, values, variants>>

\* AutoBSTR::from(x) for a raw BSTR the caller owns (or NULL).
BstrFromRaw ==
    \E i \in Slots, x \in raw \cup {NULL} :
        /\ ~bstrs[i].live
        /\ bstrs' = [bstrs EXCEPT ![i] = Holding(x)]
        /\ raw' = raw \ {x}
        /\ lastOp' = [op |-> "from_raw", ptr |-> x]
        /\ Commit(World)
        /\ UNCHANGED <<adopted, ifaces, values, variants>>

\* b.free()
BstrFree ==
    \E i \in Slots :
        /\ bstrs[i].live
        /\ Commit(AutoBSTR_free(World, bstrs[i].ptr))
        /\ bstrs' = [bstrs EXCEPT ![i] = Gone]
        /\ lastOp' = [op |-> "free", ptr |-> bstrs[i].ptr]
        /\ UNCHANGED <<raw, adopted, ifaces, values, variants>>

\* let p: BSTR = b.into()
BstrIntoRaw ==
    \E i \in Slots :
        /\ bstrs[i].live
        /\ LET r == AutoBSTR_into_BSTR(World, bstrs[i].ptr)
           IN  /\ Commit(r.w)
               /\ raw' = raw \cup ({r.val} \ {NULL})
               /\ lastOp' = [op |-> "into_raw", ptr |-> bstrs[i].ptr, ret |-> r.val]
        /\ bstrs' = [bstrs EXCEPT ![i] = Gone]
        /\ UNCHANGED <<adopted, ifaces, values, variants>>

\* let s: String = b.into()
BstrIntoString ==
    \E i \in Slots, ub \in UBOutcomes :
        /\ bstrs[i].live
        /\ LET p == bstrs[i].ptr
               r == AutoBSTR_into_String(World, p, ub)
           IN  /\ Commit(r.w)
               /\ lastOp' = [op |-> "into_string", ptr |-> p, ret |-> r.val,
                             content |-> IF p = NULL THEN <<>> ELSE heap[p].data]
        /\ bstrs' = [bstrs EXCEPT ![i] = Gone]
        /\ UNCHANGED <<raw, adopted, ifaces, values, variants>>

\* b goes out of scope
BstrDrop ==
    \E i \in Slots :
        /\ bstrs[i].live
        /\ Commit(AutoBSTR_drop(World, bstrs[i].ptr))
        /\ bstrs' = [bstrs EXCEPT ![i] = Gone]
        /\ lastOp' = [op |-> "drop", ptr |-> bstrs[i].ptr]
        /\ UNCHANGED <<raw, adopted, ifaces, values, variants>>

NextBstr ==
    \/ BstrTryFrom
    \/ BstrDefault
    \/ BstrFromRaw
    \/ BstrFree
    \/ BstrIntoRaw
    \/ BstrIntoString
    \/ BstrDrop

SpecBstr == Init /\ [][NextBstr]_vars


\* ------------------------------------------- actions: safe::bstr primitives
\* The sources a caller passes: short slices and slices of more than u32::MAX
\* units (one with a terminator at its start, one without any), at byte
\* offsets from the buffer of the handle passed with them, or apart from every
\* buffer.
SrcData == {<<>>, <<0>>, <<65>>, <<65, 0, 66>>}
LongData == {<<0, 65>>, <<65>>}
FarAddr == 64 * (MaxHandles + 2)
SourcesAt(addrs) ==
    {[addr |-> a, data |-> d, long |-> FALSE] : a \in addrs, d \in SrcData}
    \cup {[addr |-> a, data |-> d, long |-> TRUE] : a \in addrs, d \in LongData}
ReAllocOffsets == {-6, 0}
NearOrFar(bstr, offsets) ==
    {FarAddr} \cup (IF bstr = NULL THEN {} ELSE {Addr(bstr) + d : d \in offsets})
BufferOf(bstr) == IF bstr = NULL THEN [st |-> "none", data |-> <<>>] ELSE heap[bstr]

\* let bstr = SysAllocString(src)
AllocString ==
    \E src \in SourcesAt({FarAddr}), fresh \in FreshHandles(World) :
        /\ \E r \in {SysAllocString(World, src, fresh)} :
            /\ Commit(r.w)
            /\ raw' = raw \cup ({r.val} \ {NULL})
            /\ lastOp' = [op |-> "SysAllocString", src |-> src, ok |-> r.ok,
                          err |-> r.err, ptr |-> r.val]
        /\ UNCHANGED <<bstrs, adopted, ifaces, values, variants>>

\* let bstr = SysAllocStringLen(src)
AllocStringLen ==
    \E src \in SourcesAt({FarAddr}), fresh \in FreshHandles(World) :
        /\ \E r \in {SysAllocStringLen(World, src, fresh)} :
            /\ Commit(r.w)
            /\ raw' = raw \cup ({r.val} \ {NULL})
            /\ lastOp' = [op |-> "SysAllocStringLen", src |-> src, ok |-> r.ok,
                          err |-> r.err, ptr |-> r.val]
        /\ UNCHANGED <<bstrs, adopted, ifaces, values, variants>>

\* let bstr = SysReAllocString(bstr, src): on Ok the caller goes on with the
\* handle returned, on Err with the one it passed.
ReAllocString ==
    \E bstr \in raw \cup {NULL}, ans \in ReAllocAnswers(World) :
        \E src \in SourcesAt(NearOrFar(bstr, ReAllocOffsets)) :
            /\ \E r \in {SysReAllocString(World, bstr, src, ans)} :
                /\ Commit(r.w)
                /\ raw' = IF r.ok THEN (raw \ {bstr}) \cup {r.val} ELSE raw
                /\ lastOp' = [op |-> "SysReAllocString", bstr |-> bstr, src |-> src,
                              before |-> BufferOf(bstr), ok |-> r.ok, err |-> r.err,
                              ptr |-> r.val]
            /\ UNCHANGED <<bstrs, adopted, ifaces, values, variants>>

\* let bstr = SysReAllocStringLen(bstr, src)
ReAllocStringLen ==
    \E bstr \in raw \cup {NULL}, ans \in ReAllocAnswers(World) :
        \E src \in SourcesAt(NearOrFar(bstr, ReAllocOffsets)) :
            /\ \E r \in {SysReAllocStringLen(World, bstr, src, ans)} :
                /\ Commit(r.w)
                /\ raw' = IF r.ok THEN (raw \ {bstr}) \cup {r.val} ELSE raw
                /\ lastOp' = [op |-> "SysReAllocStringLen", bstr |-> bstr, src |-> src,
                              before |-> BufferOf(bstr), ok |-> r.ok, err |-> r.err,
                              ptr |-> r.val]
            /\ UNCHANGED <<bstrs, adopted, ifaces, values, variants>>

\* SysFreeString(bstr) on a handle the caller owns
FreeString ==
    \E bstr \in raw :
        /\ Commit(SysFreeString(World, bstr))
        /\ raw' = raw \ {bstr}
        /\ lastOp' = [op |-> "SysFreeString", ptr |-> bstr]
        /\ UNCHANGED <<bstrs, adopted, ifaces, values, variants>>

\* let s: String = AutoBSTR::try_from(x)?.into()
TextRoundTrip ==
    \E x \in Texts, fresh \in FreshHandles(World), ub \in UBOutcomes :
        /\ \E a \in {AutoBSTR_try_from_str(World, x, fresh)} :
            \E r \in {IF a.ok THEN AutoBSTR_into_String(a.w, a.val, ub)
                      ELSE [w |-> a.w, val |-> <<>>]} :
                /\ Commit(r.w)
                /\ lastOp' = [op |-> "round_trip", text |-> x, ok |-> a.ok,
                              err |-> a.err, ptr |-> a.val,
                              content |-> IF a.ok THEN a.w.heap[a.val].data ELSE <<>>,
                              ret |-> r.val]
        /\ UNCHANGED <<raw, bstrs, adopted, ifaces, values, variants>>

NextAlloc ==
    \/ AllocString
    \/ AllocStringLen
    \/ ReAllocString
    \/ ReAllocStringLen
    \/ FreeString
    \/ TextRoundTrip

SpecAlloc == Init /\ [][NextAlloc]_vars

\* bstr_src_intersection(bstr, src), for a source at every even byte offset
\* from the handle that can touch its buffer
IntersectionOffsets == {2 * k : k \in (-6)..6}
CheckIntersection ==
    \E bstr \in raw \cup {NULL} :
        \E src \in SourcesAt(NearOrFar(bstr, IntersectionOffsets)) :
            /\ Commit(World)
            /\ lastOp' = [op |-> "bstr_src_intersection", bstr |-> bstr, src |-> src,
                          len |-> SysStringLen(World, bstr),
                          ret |-> bstr_src_intersection(World, bstr, src)]
            /\ UNCHANGED <<raw, bstrs, adopted, ifaces, values, variants>>

NextOverlap ==
    \/ AllocStringLen
    \/ CheckIntersection

SpecOverlap == Init /\ [][NextOverlap]_vars


\* ---------------------------------------------- actions: AutoCOMInterface
\* What an activation or query call may answer: a failure with no pointer, a
\* success with an object (carrying a fresh count) or, against its contract, a
\* success with no pointer.
ForeignAnswers ==
    {[hr |-> hr, pv |-> NULL] : hr \in HResults}
        \cup {[hr |-> hr, pv |-> o] : hr \in SuccessCodes, o \in Objects}

CanAdopt(p) == IF p = NULL THEN TRUE ELSE adopted[p] < MaxRefs
Adopt(ok, p) ==
    adopted' = IF ok /\ p # NULL THEN [adopted EXCEPT ![p] = @ + 1] ELSE adopted

\* AutoCOMInterface::try_from(p) on a pointer a foreign call handed to the caller
ComWrap ==
    \E i \in ISlots, p \in Objects \cup {NULL} :
        /\ ~ifaces[i].live /\ CanAdopt(p)
        /\ LET r == AutoCOMInterface_try_from(p)
           IN  /\ Commit(HandOver(World, p))
               /\ ifaces' = IF r.ok THEN [ifaces EXCEPT ![i] = Iface(r.ptr)] ELSE ifaces
               /\ Adopt(r.ok, p)
               /\ lastOp' = [op |-> "wrap", arg |-> p, kind |-> IF r.ok THEN "ok" ELSE "err",
                             ptr |-> r.ptr]
        /\ UNCHANGED <<bstrs, raw, values, variants>>

\* h.unwrap()
ComUnwrap ==
    \E i \in ISlots :
        /\ ifaces[i].live
        /\ LET r == AutoCOMInterface_unwrap(ifaces[i].ptr)
           IN  /\ ifaces' = [ifaces EXCEPT ![i].ptr = r.ptr, ![i].unwrapped = TRUE]
               /\ lastOp' = [op |-> "unwrap", arg |-> ifaces[i].ptr, ret |-> r.ret,
                             ptr |-> r.ptr, origin |-> ifaces[i].origin,
                             unwrapped |-> ifaces[i].unwrapped]
        /\ Commit(World)
        /\ UNCHANGED <<adopted, bstrs, raw, values, variants>>

\* h goes out of scope
ComDrop ==
    \E i \in ISlots :
        /\ ifaces[i].live
        /\ IF ifaces[i].ptr = NULL THEN TRUE ELSE released[ifaces[i].ptr] <= MaxRefs
        /\ Commit(AutoCOMInterface_drop(World, ifaces[i].ptr))
        /\ ifaces' = [ifaces EXCEPT ![i] = NoIface]
        /\ lastOp' = [op |-> "drop", ptr |-> ifaces[i].ptr, origin |-> ifaces[i].origin,
                      unwrapped |-> ifaces[i].unwrapped]
        /\ UNCHANGED <<adopted, bstrs, raw, values, variants>>

\* AutoCOMInterface::default()
ComDefault ==
    \E i \in ISlots :
        /\ ~ifaces[i].live
        /\ LET r == AutoCOMInterface_default
           IN  /\ ifaces' = [ifaces EXCEPT ![i] = Iface(r.ptr)]
               /\ lastOp' = [op |-> "default", kind |-> "ok", ptr |-> r.ptr]
        /\ Commit(World)
        /\ UNCHANGED <<adopted, bstrs, raw, values, variants>>

\* AutoCOMInterface::create_instance(rclsid, pUnkOuter, dwClsContext)
ComCreateInstance ==
    \E i \in ISlots, a \in ForeignAnswers :
        /\ ~ifaces[i].live /\ CanAdopt(a.pv)
        /\ LET r == AutoCOMInterface_create_instance(a.hr, a.pv)
           IN  /\ Commit(HandOver(Logged(World, "CoCreateInstance", a.pv), a.pv))
               /\ ifaces' = IF r.ok THEN [ifaces EXCEPT ![i] = Iface(r.ptr)] ELSE ifaces
               /\ Adopt(r.ok, a.pv)
               /\ lastOp' = [op |-> "create_instance", hr |-> a.hr, pv |-> a.pv,
                             kind |-> IF r.ok THEN "ok" ELSE "err", ptr |-> r.ptr,
                             err |-> r.err]
        /\ UNCHANGED <<bstrs, raw, values, variants>>

\* AutoCOMInterface::get_class_object(rclsid, dwClsContext, pvReserved)
ComGetClassObject ==
    \E i \in ISlots, a \in ForeignAnswers :
        /\ ~ifaces[i].live /\ CanAdopt(a.pv)
        /\ LET r == AutoCOMInterface_get_class_object(a.hr, a.pv)
           IN  /\ Commit(HandOver(Logged(World, "CoGetClassObject", a.pv), a.pv))
               /\ ifaces' = IF r.ok THEN [ifaces EXCEPT ![i] = Iface(r.ptr)] ELSE ifaces
               /\ Adopt(r.ok, a.pv)
               /\ lastOp' = [op |-> "get_class_object", hr |-> a.hr, pv |-> a.pv,
                             kind |-> IF r.ok THEN "ok" ELSE "err", ptr |-> r.ptr,
                             err |-> r.err]
        /\ UNCHANGED <<bstrs, raw, values, variants>>

\* factory.create_instance::<U>(unk_outer) through a non-null factory handle
ComFactoryCreateInstance ==
    \E f \in ISlots, i \in ISlots, a \in ForeignAnswers :
        /\ ifaces[f].live /\ ifaces[f].ptr # NULL
        /\ ~ifaces[i].live /\ CanAdopt(a.pv)
        /\ LET r == SmartIClassFactory_create_instance(a.hr, a.pv)
           IN  /\ Commit(HandOver(Logged(World, "CreateInstance", a.pv), a.pv))
               /\ ifaces' = IF r.kind = "ok" THEN [ifaces EXCEPT ![i] = Iface(r.ptr)]
                            ELSE ifaces
               /\ Adopt(r.kind = "ok", a.pv)
               /\ lastOp' = [op |-> "factory_create_instance", hr |-> a.hr, pv |-> a.pv,
                             kind |-> r.kind, ptr |-> r.ptr, err |-> r.err]
        /\ UNCHANGED <<bstrs, raw, values, variants>>

\* h.query_interface::<T>() through a non-null handle
ComQueryInterface ==
    \E f \in ISlots, i \in ISlots, a \in ForeignAnswers :
        /\ ifaces[f].live /\ ifaces[f].ptr # NULL
        /\ ~ifaces[i].live /\ CanAdopt(a.pv)
        /\ LET r == SmartIUnknown_query_interface(a.hr, a.pv)
           IN  /\ Commit(HandOver(Logged(World, "QueryInterface", ifaces[f].ptr), a.pv))
               /\ ifaces' = IF r.kind = "ok" THEN [ifaces EXCEPT ![i] = Iface(r.ptr)]
                            ELSE ifaces
               /\ Adopt(r.kind = "ok", a.pv)
               /\ lastOp' = [op |-> "query_interface", hr |-> a.hr, pv |-> a.pv,
                             kind |-> r.kind, ptr |-> r.ptr, err |-> r.err,
                             src |-> f, srcPtr |-> ifaces[f].ptr]
        /\ UNCHANGED <<bstrs, raw, values, variants>>

\* ------------------------------------- actions: SmartVariant with objects
ObjectVts == {VT_DISPATCH, VT_UNKNOWN}

\* SmartVariant::from(variant) on a raw union a foreign call filled with an
\* object reference (which carries a count)
ValConsume ==
    \E v \in VSlots, vt \in ObjectVts, p \in Objects \cup {NULL}, ub \in UBOutcomes :
        /\ ~values[v].live /\ CanAdopt(p)
        /\ LET r == SmartVariant_from_VARIANT(HandOver(World, p), [vt |-> vt, val |-> p], ub)
           IN  /\ Commit(r.w)
               /\ values' = [values EXCEPT ![v] = [live |-> TRUE, v |-> r.val]]
               /\ Adopt(TRUE, p)
               /\ lastOp' = [op |-> "consume", vt |-> vt, arg |-> p, val |-> r.val]
        /\ UNCHANGED <<bstrs, raw, ifaces, variants>>

\* value.clone()  (#[derive(Clone)]: the pointer is copied)
ValClone ==
    \E a \in VSlots, b \in VSlots :
        /\ values[a].live /\ ~values[b].live
        /\ values' = [values EXCEPT ![b] = [live |-> TRUE, v |-> SmartVariant_clone(values[a].v)]]
        /\ lastOp' = [op |-> "clone", val |-> values[a].v]
        /\ Commit(World)
        /\ UNCHANGED <<adopted, bstrs, raw, ifaces, variants>>

\* let h: AutoCOMInterface<_> = value.try_into()
ValIntoIface ==
    \E v \in VSlots, i \in ISlots, iface \in {"IUnknown", "IDispatch"} :
        /\ values[v].live /\ ~ifaces[i].live
        /\ LET r == AutoCOMInterface_try_from_SmartVariant(values[v].v, iface)
           IN  /\ ifaces' = IF r.ok THEN [ifaces EXCEPT ![i] = Iface(r.ptr)] ELSE ifaces
               /\ lastOp' = [op |-> "value_into_iface", val |-> values[v].v, iface |-> iface,
                             kind |-> IF r.ok THEN "ok" ELSE "err", ptr |-> r.ptr]
        /\ values' = [values EXCEPT ![v] = NoValue]
        /\ Commit(World)
        /\ UNCHANGED <<adopted, bstrs, raw, variants>>

\* value goes out of scope (SmartVariant has no Drop: a pointer it holds is forgotten)
ValDrop ==
    \E v \in VSlots :
        /\ values[v].live
        /\ values' = [values EXCEPT ![v] = NoValue]
        /\ lastOp' = [op |-> "value_drop", val |-> values[v].v]
        /\ Commit(World)
        /\ UNCHANGED <<adopted, bstrs, raw, ifaces, variants>>

\* The life of object handles: construction, unwrap, drop.
NextCom ==
    \/ ComWrap
    \/ ComUnwrap
    \/ ComDrop
    \/ ComDefault
    \/ ComCreateInstance
    \/ ComGetClassObject
    \/ ComFactoryCreateInstance
    \/ ComQueryInterface

SpecCom == Init /\ [][NextCom]_vars

\* Object references that arrive in a raw union and travel through SmartVariant.
NextVal ==
    \/ ValConsume
    \/ ValClone
    \/ ValIntoIface
    \/ ValDrop
    \/ ComUnwrap
    \/ ComDrop

SpecVal == Init /\ [][NextVal]_vars

\* h.as_inner().Method(..), (*h).Method(..), h.as_ref().Method(..), ..: an
\* access to the interface behind the handle and a call through it
ComAccess ==
    \E i \in ISlots, path \in AccessPaths, build \in Builds, nc \in NullCallOutcomes :
        /\ ifaces[i].live
        /\ ifaces[i].ptr # NULL => nc = "called"
        /\ \E r \in {CallThrough(World, AccessBy(path, ifaces[i].ptr, build), nc)} :
            /\ Commit(r.w)
            /\ lastOp' = [op |-> "access", path |-> path, build |-> build,
                          ptr |-> ifaces[i].ptr, unwrapped |-> ifaces[i].unwrapped,
                          kind |-> r.kind]
        /\ UNCHANGED <<adopted, bstrs, raw, ifaces, values, variants>>

NextAccess ==
    \/ ComWrap
    \/ ComDefault
    \/ ComUnwrap
    \/ ComDrop
    \/ ComAccess

SpecAccess == Init /\ [][NextAccess]_vars


\* ------------------------------------------------ actions: SmartIDispatch
\* Inputs and foreign answers drawn for the dispatch operations.
MemberIds == {3}
Names == {<<128512, 65>>}
ArgValues == {SV("Int4", 7), SText(<<65>>)}
ArgLists == SeqsUpTo(ArgValues, MaxArgs)
InvokeKinds == {DISPATCH_METHOD, DISPATCH_PROPERTYGET, DISPATCH_PROPERTYPUT}

\* GetIDsOfNames on one name: S_OK or S_FALSE with the id, or DISP_E_UNKNOWNNAME
\* with the id left unknown.
ResolveAnswers ==
    {[hr |-> hr, ids |-> <<id>>] : hr \in SuccessCodes, id \in MemberIds}
        \cup {[hr |-> -2147352570, ids |-> <<DISPID_UNKNOWN>>]}

NoText == [set |-> FALSE, data |-> <<>>]
TextOf(data) == [set |-> TRUE, data |-> data]

\* Invoke: a success with a result union, or DISP_E_EXCEPTION with or without a
\* description (here "E", or an unpaired surrogate) and puArgErr.
InvokeAnswers ==
    {[hr |-> S_OK, res |-> r, desc |-> NoText, source |-> NoText, help |-> NoText,
      arg |-> 0] :
        r \in {[vt |-> VT_I4, val |-> 0, data |-> <<>>],
               [vt |-> VT_BSTR, val |-> 0, data |-> <<72, 0, 105>>],
               [vt |-> VT_NULL, val |-> 0, data |-> <<>>]}}
    \cup {[hr |-> -2147352567, res |-> [vt |-> VT_EMPTY, val |-> 0, data |-> <<>>],
           desc |-> d.desc, source |-> NoText, help |-> NoText, arg |-> d.arg] :
            d \in {[desc |-> [set |-> FALSE, data |-> <<>>], arg |-> 0],
                   [desc |-> [set |-> TRUE, data |-> <<69>>], arg |-> 1],
                   [desc |-> [set |-> TRUE, data |-> <<55357>>], arg |-> 0]}}

\* Invoke failing with DISP_E_EXCEPTION and an exception record of which the
\* callee filled any of bstrDescription ("E"), bstrSource ("S") and
\* bstrHelpFile ("H"), with the result union left empty or holding a text.
ExceptionAnswers ==
    {[hr |-> -2147352567, res |-> r, desc |-> d, source |-> src, help |-> h, arg |-> 0] :
        r \in {[vt |-> VT_EMPTY, val |-> 0, data |-> <<>>],
               [vt |-> VT_BSTR, val |-> 0, data |-> <<82>>]},
        d \in {NoText, TextOf(<<69>>)}, src \in {NoText, TextOf(<<83>>)},
        h \in {NoText, TextOf(<<72>>)}}

OpRecord(op, name, params, g, r) ==
    [op |-> op, name |-> name, params |-> params, resolved |-> g,
     kind |-> r.kind, val |-> r.val, hr |-> r.hr, msg |-> r.msg, arg |-> r.arg,
     inv |-> r.inv]

DispUnchanged == UNCHANGED <<adopted, bstrs, raw, ifaces, values, variants>>

\* The allocator can only refuse an allocation the operation makes, and the
\* outcome of a read of a released buffer is only open when one happens.
TextArgs(params) == Cardinality({i \in 1..Len(params) : params[i].tag = "Text"})
ReadsFreed(w) == \E i \in 1..Len(w.log) : w.log[i].ev = "read_freed"
OutcomesFor(ans) ==
    IF ans.res.vt = VT_BSTR \/ ans.desc.set THEN UBOutcomes ELSE {"intact"}
Drawn(r, ub) == r.kind # "stuck" /\ (ub = "clobbered" => ReadsFreed(r.w))

\* disp.invoke(member_dispid, lcid, flags, params)
DispInvoke ==
    \E id \in MemberIds, flags \in InvokeKinds, params \in ArgLists,
       ans \in InvokeAnswers :
        \E failAt \in 0..TextArgs(params), ub \in OutcomesFor(ans) :
            \E r \in {SmartIDispatch_invoke(World, id, flags, params, ans, failAt, ub)} :
                /\ Drawn(r, ub)
                /\ Commit(r.w)
                /\ lastOp' = OpRecord("invoke", <<>>, params, [hr |-> S_OK, ids |-> <<id>>], r)
                /\ DispUnchanged

\* disp.call(method, params)
DispCall ==
    \E name \in Names, params \in ArgLists, gans \in ResolveAnswers,
       ans \in InvokeAnswers :
        \E failAt \in 0..TextArgs(params), ub \in OutcomesFor(ans) :
            \E r \in {SmartIDispatch_call(World, name, params, gans, ans, failAt, ub)} :
                /\ Drawn(r, ub)
                /\ Commit(r.w)
                /\ lastOp' = OpRecord("call", name, params, gans, r)
                /\ DispUnchanged

\* disp.get(property)
DispGet ==
    \E name \in Names, gans \in ResolveAnswers, ans \in InvokeAnswers :
        \E ub \in OutcomesFor(ans) :
            \E r \in {SmartIDispatch_get(World, name, gans, ans, 0, ub)} :
                /\ Drawn(r, ub)
                /\ Commit(r.w)
                /\ lastOp' = OpRecord("get", name, <<>>, gans, r)
                /\ DispUnchanged

\* disp.put(property, value)
DispPut ==
    \E name \in Names, value \in ArgValues, gans \in ResolveAnswers,
       ans \in InvokeAnswers :
        \E failAt \in 0..TextArgs(<<value>>), ub \in OutcomesFor(ans) :
            \E r \in {SmartIDispatch_put(World, name, value, gans, ans, failAt, ub)} :
                /\ Drawn(r, ub)
                /\ Commit(r.w)
                /\ lastOp' = OpRecord("put", name, <<value>>, gans, r)
                /\ DispUnchanged

\* disp.invoke(member_dispid, lcid, flags, &[]) on a member that raises an
\* exception
DispInvokeRaising ==
    \E id \in MemberIds, flags \in InvokeKinds, ans \in ExceptionAnswers :
        \E ub \in OutcomesFor(ans) :
            \E r \in {SmartIDispatch_invoke(World, id, flags, <<>>, ans, 0, ub)} :
                /\ Drawn(r, ub)
                /\ Commit(r.w)
                /\ lastOp' = OpRecord("invoke", <<>>, <<>>, [hr |-> S_OK, ids |-> <<id>>], r)
                /\ DispUnchanged

\* The caller frees a buffer Invoke left with it.
DispFreeLeft ==
    \E bstr \in {h \in Handles : heap[h].st = "live"} :
        /\ Commit(SysFreeString(World, bstr))
        /\ lastOp' = [op |-> "SysFreeString", ptr |-> bstr]
        /\ DispUnchanged

NextExcep ==
    \/ DispInvokeRaising
    \/ DispFreeLeft

SpecExcep == Init /\ [][NextExcep]_vars

NextDisp ==
    \/ DispInvoke
    \/ DispCall
    \/ DispGet
    \/ DispPut

SpecDisp == Init /\ [][NextDisp]_vars

\* ------------------------------- actions: resolution and introspection
MaxNames == 2       \* longest batch of names passed to get_ids_of_names

\* The names asked for, and the ids the foreign object has for them.
BatchNames == {<<65>>, <<66>>, <<128512, 65>>}
NameBatches == SeqsUpTo(BatchNames, MaxNames)
MemberIdOf(name) == IF name = <<65>> THEN 0 ELSE IF name = <<66>> THEN 7 ELSE 3

\* GetIDsOfNames on a batch: the object writes the id of every name it resolves
\* (the positions in `known`) and answers a status.
BatchAnswers(names) ==
    {[hr |-> hr, ids |-> [i \in known |-> MemberIdOf(names[i])]] :
        hr \in SuccessCodes \cup {-2147352570}, known \in SUBSET (1..Len(names))}

\* disp.get_ids_of_names(names, lcid)
DispGetIdsOfNames ==
    \E names \in NameBatches :
        \E ans \in BatchAnswers(names) :
            \E r \in {SmartIDispatch_get_ids_of_names(World, names, ans)} :
                /\ Commit(r.w)
                /\ lastOp' = [op |-> "get_ids_of_names", names |-> names,
                              known |-> DOMAIN ans.ids, status |-> ans.hr,
                              ids |-> r.ids, hr |-> r.hr, szNames |-> r.szNames]
                /\ DispUnchanged

\* disp.get_type_info_count()
DispGetTypeInfoCount ==
    \E hr \in HResults, n \in {0, 1} :
        \E r \in {SmartIDispatch_get_type_info_count(hr, n)} :
            /\ Commit(Logged(World, "GetTypeInfoCount", n))
            /\ lastOp' = [op |-> "get_type_info_count", hr |-> hr, pv |-> n,
                          kind |-> r.kind, ptr |-> r.val, err |-> r.err]
            /\ DispUnchanged

\* disp.get_type_info(iTInfo, lcid)
DispGetTypeInfo ==
    \E i \in ISlots, a \in ForeignAnswers :
        /\ ~ifaces[i].live /\ CanAdopt(a.pv)
        /\ \E r \in {SmartIDispatch_get_type_info(a.hr, a.pv)} :
               /\ Commit(HandOver(Logged(World, "GetTypeInfo", a.pv), a.pv))
               /\ ifaces' = IF r.kind = "ok" THEN [ifaces EXCEPT ![i] = Iface(r.ptr)]
                            ELSE ifaces
               /\ Adopt(r.kind = "ok", a.pv)
               /\ lastOp' = [op |-> "get_type_info", hr |-> a.hr, pv |-> a.pv,
                             kind |-> r.kind, ptr |-> r.ptr, err |-> r.err]
        /\ UNCHANGED <<bstrs, raw, values, variants>>

\* ------------------------------------------ actions: the value bridge
\* The SmartVariants converted: every variant, a Text with an embedded NUL or
\* a character outside the basic plane, a pointer variant holding an opaque
\* pointer or an object.
BridgeTexts == {<<65, 0, 66>>, <<128512>>}
BridgeValues ==
    {Empty, SBool(TRUE), SBool(FALSE)}
        \cup {SText(t) : t \in BridgeTexts}
        \cup {SV(r[1], 7) : r \in {q \in VariantTable :
                                    q[1] \notin {"Empty", "Bool", "Text", "IDispatch", "IUnknown"}}}
        \cup {SV(tag, p) : tag \in {"IDispatch", "IUnknown"}, p \in Objects}

\* Raw unions a foreign call may leave: discriminants the bridge enumerates
\* (a boolean payload of -1, 0 or 1), and VT_NULL, VT_CY, VT_DECIMAL,
\* VT_RECORD, VT_ARRAY | VT_I4 and VT_BYREF | VT_I4, which it does not.
ForeignUnions ==
    {[vt |-> VT_BOOL, val |-> b] : b \in {-1, 0, 1}}
        \cup {[vt |-> vt, val |-> 7] :
                vt \in {VT_I4, VT_NULL, VT_CY, VT_DECIMAL, VT_RECORD,
                        VT_ARRAY + VT_I4, VT_BYREF + VT_I4}}
        \cup {[vt |-> vt, val |-> p] : vt \in {VT_EMPTY, VT_DISPATCH}, p \in Objects}

AVariant(var, x, built) == [live |-> TRUE, var |-> var, from |-> x, built |-> built]

\* VariantClear on an object reference makes a Release: one per object is
\* followed.
CanClear(var) ==
    var.vt \in {VT_DISPATCH, VT_UNKNOWN} /\ var.val # NULL => released[var.val] = 0

BridgeUnchanged == UNCHANGED <<adopted, bstrs, ifaces, values>>

\* let u: AutoVariant = x.into()
BridgeFromValue ==
    \E i \in USlots, x \in BridgeValues :
        \E fresh \in IF x.tag = "Text" THEN FreshHandles(World) ELSE {NULL} :
            \E r \in {AutoVariant_from_SmartVariant(World, x, fresh)} :
                /\ ~variants[i].live
                /\ Commit(r.w)
                /\ variants' = IF r.kind = "ok"
                               THEN [variants EXCEPT ![i] = AVariant(r.var, x, TRUE)]
                               ELSE variants
                /\ lastOp' = [op |-> "into_union", x |-> x, kind |-> r.kind, var |-> r.var]
                /\ UNCHANGED raw
                /\ BridgeUnchanged

\* let u = AutoVariant::from(variant) on a union a foreign call filled (a text
\* in a buffer of the callee, an object reference carrying a count)
BridgeWrap ==
    \E i \in USlots, var \in ForeignUnions :
        /\ ~variants[i].live
        /\ IF var.vt = VT_DISPATCH THEN refCount[var.val] = 0 ELSE TRUE
        /\ Commit(IF var.vt = VT_DISPATCH THEN HandOver(World, var.val) ELSE World)
        /\ variants' = [variants EXCEPT ![i] = AVariant(var, Empty, FALSE)]
        /\ lastOp' = [op |-> "wrap_union", var |-> var]
        /\ UNCHANGED raw
        /\ BridgeUnchanged

\* let v: SmartVariant = u.into()
BridgeIntoValue ==
    \E i \in USlots, ub \in UBOutcomes :
        \E r \in {SmartVariant_from_AutoVariant(World, variants[i].var, ub)} :
            /\ variants[i].live
            /\ ub = "clobbered" => ReadsFreed(r.w)
            /\ Commit(r.w)
            /\ variants' = [variants EXCEPT ![i] = NoVariant]
            /\ lastOp' = [op |-> "into_value", var |-> variants[i].var,
                          from |-> variants[i].from, built |-> variants[i].built,
                          kind |-> r.kind, val |-> r.val]
            /\ UNCHANGED raw
            /\ BridgeUnchanged

\* u.clear()
BridgeClear ==
    \E i \in USlots :
        \E r \in {AutoVariant_clear(World, variants[i].var)} :
            /\ variants[i].live
            /\ CanClear(variants[i].var)
            /\ Commit(r.w)
            /\ variants' = [variants EXCEPT ![i].var = r.var, ![i].built = FALSE]
            /\ lastOp' = [op |-> "clear", var |-> variants[i].var, after |-> r.var,
                          hr |-> r.hr]
            /\ UNCHANGED raw
            /\ BridgeUnchanged

\* u goes out of scope
BridgeDrop ==
    \E i \in USlots :
        /\ variants[i].live
        /\ CanClear(variants[i].var)
        /\ Commit(AutoVariant_drop(World, variants[i].var))
        /\ variants' = [variants EXCEPT ![i] = NoVariant]
        /\ lastOp' = [op |-> "variant_drop", var |-> variants[i].var]
        /\ UNCHANGED raw
        /\ BridgeUnchanged

\* let raw: VARIANT = u.into(): the caller now holds the union and what it owns
BridgeIntoRaw ==
    \E i \in USlots :
        \E r \in {VARIANT_from_AutoVariant(World, variants[i].var)} :
            /\ variants[i].live
            /\ Commit(r.w)
            /\ variants' = [variants EXCEPT ![i] = NoVariant]
            /\ raw' = IF r.var.vt = VT_BSTR /\ r.var.val # NULL
                      THEN raw \cup {r.var.val} ELSE raw
            /\ lastOp' = [op |-> "into_raw", var |-> variants[i].var, out |-> r.var]
            /\ BridgeUnchanged

NextBridge ==
    \/ BridgeFromValue
    \/ BridgeWrap
    \/ BridgeIntoValue
    \/ BridgeClear
    \/ BridgeDrop
    \/ BridgeIntoRaw

SpecBridge == Init /\ [][NextBridge]_vars

\* The values passed to value_set: one of each type the chain names, under the
\* name the caller writes, and two types it does not name.  The pointers passed
\* are null.
SetTypes == {ValueSetBranches[k][1] : k \in 1..Len(ValueSetBranches)} \cup {"u64", "String"}
PointerTypes == {"BSTR", "LPDISPATCH", "LPVARIANT", "LPUNKNOWN", "LPDECIMAL", "LPSAFEARRAY", "PVOID"}
PayloadsFor(ty) ==
    IF ty = "bool" THEN {0, 1}
    ELSE IF ty \in PointerTypes THEN {NULL}
    ELSE {7}

\* let u = u.value_set(&value)
BridgeValueSet ==
    \E i \in USlots, ty \in SetTypes :
        \E payload \in PayloadsFor(ty) :
            \E r \in {AutoVariant_value_set(World, variants[i].var, ty, payload)} :
                /\ variants[i].live
                /\ CanClear(variants[i].var)
                /\ Commit(r.w)
                /\ variants' = [variants EXCEPT ![i].var = r.var, ![i].built = FALSE]
                /\ UNCHANGED raw
                /\ lastOp' = [op |-> "value_set", var |-> variants[i].var, ty |-> ty,
                              payload |-> payload, after |-> r.var]
                /\ BridgeUnchanged

NextSet ==
    \/ BridgeWrap
    \/ BridgeValueSet
    \/ BridgeDrop

SpecSet == Init /\ [][NextSet]_vars

\* Activation and introspection: the calls that hand a foreign status back.
NextStatus ==
    \/ ComCreateInstance
    \/ ComGetClassObject
    \/ ComDrop
    \/ DispGetTypeInfoCount
    \/ DispGetTypeInfo

SpecStatus == Init /\ [][NextStatus]_vars

\* Name resolution on batches of names.
NextNames == DispGetIdsOfNames

SpecNames == Init /\ [][NextNames]_vars

\* The operations that each stand for one foreign call.
NextCalls ==
    \/ AllocString
    \/ AllocStringLen
    \/ DispGet

SpecCalls == Init /\ [][NextCalls]_vars

\* --------------------------------------------------- properties: AutoBSTR
Free(p) == [ev |-> "SysFreeString", h |-> p]
EventsAt(e) == {i \in 1..Len(events) : events[i] = e}
ReadsOf(p) == {i \in 1..Len(events) : events[i].h = p /\ events[i].ev \in {"read", "read_freed"}}

\* C2: converting an AutoBSTR into a String reads the buffer of a non-null
\* handle only while it is live (every read of the handle is a read of a live
\* buffer and comes before the SysFreeString of the handle), and a null handle
\* gives the empty text.  As stated by the specification.
C2_DecodeReadsOnlyLiveBuffer ==
    lastOp.op = "into_string" =>
        IF lastOp.ptr = NULL THEN lastOp.ret = <<>>
        ELSE \A i \in ReadsOf(lastOp.ptr) :
                /\ events[i].ev = "read"
                /\ \A j \in EventsAt(Free(lastOp.ptr)) : i < j

\* C8: the free primitive is applied to a handle at most once over any sequence
\* of operations; each way of destroying a wrapper that holds h (drop, free,
\* decode to text) applies it to h exactly once and every other free it issues
\* is on null; extracting the raw handle returns h, frees only null, and leaves
\* h live and never freed in the caller's hands.
C8_FreedOnceUnlessExtracted ==
    /\ \A h \in Handles : freeCalls[h] <= 1 /\ (freeCalls[h] = 1 <=> heap[h].st = "freed")
    /\ \A h \in raw : heap[h].st = "live" /\ freeCalls[h] = 0
    /\ lastOp.op = "drop" => events = <<Free(lastOp.ptr)>>
    /\ lastOp.op = "free" => events = <<Free(lastOp.ptr), Free(NULL)>>
    /\ lastOp.op = "into_raw" =>
            /\ lastOp.ret = lastOp.ptr
            /\ events = <<Free(NULL)>>
            /\ lastOp.ptr # NULL => lastOp.ptr \in raw
    /\ lastOp.op = "into_string" =>
            /\ Cardinality(EventsAt(Free(lastOp.ptr))) = 1
            /\ \A i \in 1..Len(events) :
                    events[i].ev = "SysFreeString" => events[i].h = lastOp.ptr
            /\ lastOp.ptr # NULL => freeCalls[lastOp.ptr] = 1

\* C8 witness: one handle was extracted and is still live in the caller's hands
\* while a wrapper owning another handle has just been dropped and freed it.
C8_Witness ==
    /\ lastOp.op = "drop"
    /\ lastOp.ptr # NULL
    /\ freeCalls[lastOp.ptr] = 1
    /\ \E h \in raw : h # lastOp.ptr /\ heap[h].st = "live" /\ freeCalls[h] = 0

\* ------------------------------------------- properties: AutoCOMInterface
Constructors ==
    {"wrap", "default", "create_instance", "get_class_object", "factory_create_instance",
     "query_interface"}

\* C5: every handle a constructor yields holds a non-null pointer (a handle
\* holds null only after unwrap), so a success status with a null pointer never
\* yields an Ok handle.  As stated by the specification.
C5_ConstructorsYieldNonNull ==
    /\ lastOp.op \in Constructors /\ lastOp.kind = "ok" => lastOp.ptr # NULL
    /\ \A i \in ISlots : ifaces[i].live /\ ~ifaces[i].unwrapped => ifaces[i].ptr # NULL

\* C6: wrap(NULL) fails, wrap(p) succeeds holding p and calls nothing foreign
\* (no AddRef); unwrap returns the pointer held (the one the handle was made
\* with, on its first unwrap), calls nothing foreign and leaves null in the
\* handle; the drop of an unwrapped handle calls nothing foreign; the drop of a
\* handle made with p and never unwrapped is exactly one Release on p.
C6_WrapUnwrapDrop ==
    /\ lastOp.op = "wrap" =>
            /\ events = <<>>
            /\ IF lastOp.arg = NULL THEN lastOp.kind = "err"
               ELSE lastOp.kind = "ok" /\ lastOp.ptr = lastOp.arg
    /\ lastOp.op = "unwrap" =>
            /\ events = <<>>
            /\ lastOp.ret = lastOp.arg
            /\ lastOp.ptr = NULL
            /\ ~lastOp.unwrapped => lastOp.ret = lastOp.origin
    /\ lastOp.op = "drop" /\ lastOp.unwrapped => events = <<>>
    /\ lastOp.op = "drop" /\ ~lastOp.unwrapped /\ lastOp.origin # NULL =>
            events = <<[ev |-> "Release", h |-> lastOp.origin]>>
    /\ \A i \in ISlots : ifaces[i].live /\ ifaces[i].unwrapped => ifaces[i].ptr = NULL

\* C6 witness: a handle made with an object was unwrapped and then dropped, and
\* the object still has every count that was handed over.
C6_Witness ==
    /\ lastOp.op = "drop"
    /\ lastOp.unwrapped
    /\ lastOp.origin # NULL
    /\ events = <<>>
    /\ released[lastOp.origin] = 0
    /\ refCount[lastOp.origin] = adopted[lastOp.origin]
    /\ adopted[lastOp.origin] > 0

\* ------------------------------- properties: object references in values
\* C4: over consume / clone / convert to a handle / unwrap / drop, the Releases
\* issued on an object never exceed the counts transferred for it.  As stated
\* by the specification.
C4_ReleasesWithinTransferred == \A o \in Objects : released[o] <= adopted[o]

\* ------------------------------------------- properties: SmartIDispatch
ByName == {"call", "get", "put"}
Dispatching == ByName \cup {"invoke"}
ResolutionMessage ==
    <<103, 101, 116, 95, 105, 100, 115, 95, 111, 102, 95, 110, 97, 109, 101, 115, 40, 41>>

\* C1: when get_ids_of_names answers a status other than S_OK, call / get / put
\* return the error (that status, "get_ids_of_names()", 0) and Invoke is not
\* called.  As stated by the specification.
C1_ResolutionFailureIsReturned ==
    lastOp.op \in ByName /\ lastOp.resolved.hr # S_OK =>
        /\ ~lastOp.inv.called
        /\ \A i \in 1..Len(events) : events[i].ev # "Invoke"
        /\ lastOp.kind = "err"
        /\ lastOp.hr = lastOp.resolved.hr
        /\ lastOp.msg = ResolutionMessage
        /\ lastOp.arg = 0

\* C3: when invoke returns (Ok or Err), every buffer it allocated for a Text
\* argument has been freed or is held by an owner (an AutoBSTR, or the caller
\* as a raw handle).  As stated by the specification.
C3_ArgumentBuffersNotLeaked ==
    lastOp.op = "invoke" /\ lastOp.kind \in {"ok", "err"} =>
        \A i \in 1..Len(events) :
            events[i].ev = "SysAllocStringLen" /\ events[i].h # NULL =>
                \/ heap[events[i].h].st = "freed"
                \/ events[i].h \in raw
                \/ \E b \in Slots : bstrs[b].live /\ bstrs[b].ptr = events[i].h

\* The raw union a SmartVariant is converted to, read in the state invoke leaves.
ConvertsTo(x, v) ==
    IF x.tag = "Text"
    THEN v.vt = VT_BSTR /\ v.val # NULL /\ heap[v.val].data = encode_utf16(x.text)
    ELSE IF x.tag = "Bool"
    THEN v = [vt |-> VT_BOOL, val |-> IF x.flag THEN -1 ELSE 0]
    ELSE \E r \in VariantTable : r[1] = x.tag /\ v = [vt |-> r[2], val |-> x.val]

\* C9: whenever Invoke is called, the argument array has the length n of the
\* caller's sequence, its position i (from 1) holds the conversion of the
\* caller's argument n + 1 - i, Text arguments at different positions have
\* buffers of their own, and cNamedArgs is 0.
C9_ArgumentsReversed ==
    lastOp.op \in Dispatching /\ lastOp.inv.called =>
        LET n == Len(lastOp.params)
            rgvarg == lastOp.inv.rgvarg
        IN  /\ lastOp.inv.cArgs = n
            /\ Len(rgvarg) = n
            /\ lastOp.inv.cNamedArgs = 0
            /\ \A i \in 1..n : ConvertsTo(lastOp.params[n + 1 - i], rgvarg[i])
            /\ \A i, j \in 1..n :
                    i # j /\ rgvarg[i].vt = VT_BSTR /\ rgvarg[j].vt = VT_BSTR =>
                        rgvarg[i].val # rgvarg[j].val

\* C9 witness: invoke was called with two different arguments, the Text one
\* last, and Invoke received the Text one first.
C9_Witness ==
    /\ lastOp.op = "invoke"
    /\ lastOp.inv.called
    /\ Len(lastOp.params) = 2
    /\ lastOp.params[1].tag = "Int4"
    /\ lastOp.params[2].tag = "Text"
    /\ lastOp.inv.rgvarg[1].vt = VT_BSTR
    /\ lastOp.inv.rgvarg[2].vt = VT_I4

\* C10: when Invoke answers a failing status, invoke returns Err of that status,
\* the lossy decoding of the description Invoke left, and puArgErr; a description
\* buffer has been freed exactly once, and with no description the text is empty
\* and no buffer is freed.  As stated by the specification.
C10_FailureTriple ==
    lastOp.op = "invoke" /\ lastOp.inv.called /\ ~SUCCEEDED(lastOp.inv.hresult) =>
        /\ lastOp.kind = "err"
        /\ lastOp.hr = lastOp.inv.hresult
        /\ lastOp.msg = from_utf16_lossy(lastOp.inv.description)
        /\ lastOp.arg = lastOp.inv.puArgErr
        /\ IF lastOp.inv.bstrDescription # NULL
           THEN /\ freeCalls[lastOp.inv.bstrDescription] = 1
                /\ Cardinality(EventsAt(Free(lastOp.inv.bstrDescription))) = 1
           ELSE /\ lastOp.msg = <<>>
                /\ \A i \in 1..Len(events) :
                        events[i].ev = "SysFreeString" => events[i].h = NULL

\* ------------------------ properties: resolution, introspection, activation
\* C11: get_ids_of_names returns one id per name, in the order of the names,
\* and the foreign status unchanged; a position the object resolved holds the
\* id of that name and every other position holds -1, whatever the status;
\* every name is passed as its UTF-16 encoding followed by one 0.
C11_OneIdPerName ==
    lastOp.op = "get_ids_of_names" =>
        LET n == Len(lastOp.names)
        IN  /\ DOMAIN lastOp.ids = 1..n
            /\ lastOp.hr = lastOp.status
            /\ \A i \in 1..n :
                    lastOp.ids[i] = IF i \in lastOp.known THEN MemberIdOf(lastOp.names[i])
                                    ELSE DISPID_UNKNOWN
            /\ DOMAIN lastOp.szNames = 1..n
            /\ \A i \in 1..n :
                    LET sz == lastOp.szNames[i]
                    IN  /\ Len(sz) >= 1
                        /\ sz[Len(sz)] = 0
                        /\ from_utf16_lossy(SubSeq(sz, 1, Len(sz) - 1)) = lastOp.names[i]

\* C11 witness: a batch of two names of which the object resolved only the
\* first, answering success.
C11_Witness ==
    /\ lastOp.op = "get_ids_of_names"
    /\ Len(lastOp.names) = 2
    /\ lastOp.known = {1}
    /\ lastOp.status = S_OK
    /\ lastOp.hr = S_OK
    /\ lastOp.ids[1] = MemberIdOf(lastOp.names[1])
    /\ lastOp.ids[2] = DISPID_UNKNOWN

EventsNamed(name) == {i \in 1..Len(events) : events[i].ev = name}

\* The invocation kind call / get / put pass to invoke.
KindOf(op) ==
    IF op = "call" THEN DISPATCH_METHOD
    ELSE IF op = "get" THEN DISPATCH_PROPERTYGET ELSE DISPATCH_PROPERTYPUT

\* C12: when get_ids_of_names answers success, call / get / put make one
\* invoke: Invoke is called once, with the id that was resolved, the kind of the
\* operation (method, property-get, property-put) and the conversion of the
\* operation's arguments (call: the caller's, get: none, put: the one value);
\* what invoke makes of Invoke's answer is returned as it is: Ok of the
\* converted result on a success status, Err of Invoke's status and puArgErr
\* otherwise.  invoke itself unwinds before Invoke only when the allocation of
\* a Text argument is refused.
C12_ByNameDelegatesToInvoke ==
    lastOp.op \in ByName /\ SUCCEEDED(lastOp.resolved.hr) =>
        LET n == Len(lastOp.params)
            inv == lastOp.inv
        IN  /\ Cardinality(EventsNamed("GetIDsOfNames")) = 1
            /\ lastOp.op = "get" => n = 0
            /\ lastOp.op = "put" => n = 1
            /\ IF ~inv.called
               THEN /\ lastOp.kind = "panic"
                    /\ EventsNamed("Invoke") = {}
                    /\ \E i \in 1..Len(events) :
                            events[i].ev = "SysAllocStringLen" /\ events[i].h = NULL
               ELSE /\ Cardinality(EventsNamed("Invoke")) = 1
                    /\ inv.dispid = lastOp.resolved.ids[1]
                    /\ inv.flags = KindOf(lastOp.op)
                    /\ inv.cArgs = n
                    /\ Len(inv.rgvarg) = n
                    /\ \A i \in 1..n : ConvertsTo(lastOp.params[n + 1 - i], inv.rgvarg[i])
                    /\ IF SUCCEEDED(inv.hresult)
                       THEN /\ lastOp.kind \in {"ok", "panic"}
                            /\ lastOp.kind = "panic" <=> inv.result.vt = VT_NULL
                            /\ inv.result.vt = VT_I4 =>
                                    lastOp.val = SV("Int4", inv.result.val)
                            /\ inv.result.vt = VT_BSTR => lastOp.val.tag = "Text"
                       ELSE /\ lastOp.kind = "err"
                            /\ lastOp.hr = inv.hresult
                            /\ lastOp.arg = inv.puArgErr

\* C12 witness: put resolved its name and Invoke, called with the property-put
\* kind and the one value, answered a failure that put returned.
C12_Witness ==
    /\ lastOp.op = "put"
    /\ lastOp.resolved.hr = S_OK
    /\ lastOp.inv.called
    /\ lastOp.inv.flags = DISPATCH_PROPERTYPUT
    /\ lastOp.inv.dispid = 3
    /\ Len(lastOp.inv.rgvarg) = 1
    /\ lastOp.kind = "err"
    /\ lastOp.hr = -2147352567

\* C13: query_interface returns Err of the foreign status when QueryInterface
\* fails, Err(E_POINTER) when it succeeds and leaves a null pointer, and Ok of a
\* handle holding the pointer it left otherwise; the only foreign call made is
\* the one QueryInterface on the source (no AddRef, no Release), and the source
\* handle still holds its pointer.
C13_QueryInterface ==
    lastOp.op = "query_interface" =>
        /\ ~SUCCEEDED(lastOp.hr) => lastOp.kind = "err" /\ lastOp.err = lastOp.hr
        /\ SUCCEEDED(lastOp.hr) /\ lastOp.pv = NULL =>
                lastOp.kind = "err" /\ lastOp.err = E_POINTER
        /\ SUCCEEDED(lastOp.hr) /\ lastOp.pv # NULL =>
                /\ lastOp.kind = "ok"
                /\ lastOp.ptr = lastOp.pv
                /\ \E i \in ISlots : i # lastOp.src /\ ifaces[i].live /\ ifaces[i].ptr = lastOp.pv
        /\ events = <<[ev |-> "QueryInterface", h |-> lastOp.srcPtr]>>
        /\ ifaces[lastOp.src].live
        /\ ifaces[lastOp.src].ptr = lastOp.srcPtr
        /\ lastOp.srcPtr # NULL

\* C13 witness: QueryInterface answered success and left a null pointer, and
\* query_interface returned E_POINTER.
C13_Witness ==
    /\ lastOp.op = "query_interface"
    /\ lastOp.hr = S_OK
    /\ lastOp.pv = NULL
    /\ lastOp.kind = "err"
    /\ lastOp.err = E_POINTER
    /\ ifaces[lastOp.src].ptr = lastOp.srcPtr

StatusOps == {"create_instance", "get_class_object", "get_type_info_count", "get_type_info"}

\* C14 as the specification states it: create_instance, get_class_object,
\* get_type_info_count and get_type_info return Err exactly when the foreign
\* status fails SUCCEEDED, with that status as the code, and Ok exactly when it
\* passes.
C14_OkExactlyOnSuccess ==
    lastOp.op \in StatusOps =>
        /\ ~SUCCEEDED(lastOp.hr) => lastOp.kind = "err" /\ lastOp.err = lastOp.hr
        /\ SUCCEEDED(lastOp.hr) => lastOp.kind = "ok"

\* C14, amended: Err exactly when the foreign status fails SUCCEEDED, with that
\* status as the code; on a status that passes, Ok, except that get_type_info
\* panics when GetTypeInfo left a null pointer.
C14_StatusDecides ==
    lastOp.op \in StatusOps =>
        /\ ~SUCCEEDED(lastOp.hr) => lastOp.kind = "err" /\ lastOp.err = lastOp.hr
        /\ SUCCEEDED(lastOp.hr) =>
                IF lastOp.op = "get_type_info" /\ lastOp.pv = NULL
                THEN lastOp.kind = "panic"
                ELSE lastOp.kind = "ok"

\* C14 witness: GetTypeInfo answered a failing status and get_type_info
\* returned Err of it.
C14_Witness ==
    /\ lastOp.op = "get_type_info"
    /\ ~SUCCEEDED(lastOp.hr)
    /\ lastOp.kind = "err"
    /\ lastOp.err = lastOp.hr

\* ------------------------------------------- properties: the value bridge
\* The discriminants the consuming conversion has an arm for.
Enumerated == {r[2] : r \in VariantTable}

\* C15: a SmartVariant converted into an AutoVariant and back is the same
\* variant with the same payload (the same pointer for a pointer variant).  As
\* stated by the specification.
C15_RoundTrip ==
    lastOp.op = "into_value" /\ lastOp.built =>
        /\ lastOp.kind = "ok"
        /\ lastOp.val.tag = lastOp.from.tag
        /\ lastOp.val = lastOp.from

\* C16: in the consuming conversion the discriminant is reset once, before any
\* payload is read; the drop of the AutoVariant at the end calls no
\* VariantClear; a string handle the union carried has been freed exactly once
\* (by the AutoBSTR it was moved into) and no handle more than once; an object
\* reference it carried has not been released.
C16_ResetBeforePayload ==
    lastOp.op = "into_value" =>
        /\ Cardinality(EventsNamed("vt_reset")) = 1
        /\ \A i \in EventsNamed("payload") : \A j \in EventsNamed("vt_reset") : j < i
        /\ Cardinality(EventsNamed("payload")) <= 1
        /\ EventsNamed("VariantClear") = {}
        /\ EventsNamed("Release") = {}
        /\ \A h \in Handles : Cardinality(EventsAt(Free(h))) <= 1
        /\ lastOp.var.vt = VT_BSTR /\ lastOp.var.val # NULL =>
                /\ Cardinality(EventsAt(Free(lastOp.var.val))) = 1
                /\ heap[lastOp.var.val].st = "freed"
        /\ lastOp.var.vt # VT_BSTR => EventsNamed("SysFreeString") = {}

\* C16 witness: a union holding a text was converted, and its buffer was freed
\* once.
C16_Witness ==
    /\ lastOp.op = "into_value"
    /\ lastOp.var.vt = VT_BSTR
    /\ lastOp.var.val # NULL
    /\ lastOp.kind = "ok"
    /\ freeCalls[lastOp.var.val] = 1
    /\ EventsNamed("VariantClear") = {}

\* C17: clear on a non-empty discriminant calls VariantClear once and leaves
\* the discriminant empty; on an empty one it calls nothing and returns 0 (so a
\* second clear does nothing).  An AutoVariant dropped with a non-empty
\* discriminant is cleared (VariantClear once); one converted into a
\* SmartVariant or a raw VARIANT is dropped empty and nothing is released.
C17_Clear ==
    /\ lastOp.op = "clear" =>
            IF lastOp.var.vt # VT_EMPTY
            THEN /\ Cardinality(EventsNamed("VariantClear")) = 1
                 /\ events[1] = [ev |-> "VariantClear", h |-> lastOp.var.vt]
                 /\ lastOp.after.vt = VT_EMPTY
                 /\ \A i \in USlots : variants[i].live => variants[i].var.vt = VT_EMPTY
            ELSE /\ events = <<>>
                 /\ lastOp.hr = S_OK
                 /\ lastOp.after = lastOp.var
    /\ lastOp.op = "variant_drop" =>
            IF lastOp.var.vt # VT_EMPTY
            THEN /\ Cardinality(EventsNamed("VariantClear")) = 1
                 /\ events[1] = [ev |-> "VariantClear", h |-> lastOp.var.vt]
            ELSE events = <<>>
    /\ lastOp.op = "into_raw" =>
            /\ events = <<>>
            /\ lastOp.out = lastOp.var
    /\ lastOp.op = "into_value" =>
            /\ EventsNamed("VariantClear") = {}
            /\ EventsNamed("Release") = {}

\* C17 witness: clear was called on a union an earlier clear had emptied (its
\* payload is still the 7 it was built with), and nothing was called.
C17_Witness ==
    /\ lastOp.op = "clear"
    /\ lastOp.var = [vt |-> VT_EMPTY, val |-> 7]
    /\ lastOp.hr = S_OK
    /\ events = <<>>

\* C18: Bool(true) is written as -1 and Bool(false) as 0; a boolean payload of
\* -1 is read as Bool(true), of 0 as Bool(false), and any other boolean payload
\* is read as neither.  As stated by the specification.
C18_BoolBridge ==
    /\ lastOp.op = "into_union" /\ lastOp.x.tag = "Bool" =>
            lastOp.var = [vt |-> VT_BOOL, val |-> IF lastOp.x.flag THEN -1 ELSE 0]
    /\ lastOp.op = "into_value" /\ lastOp.var.vt = VT_BOOL =>
            IF lastOp.var.val = -1 THEN lastOp.kind = "ok" /\ lastOp.val = SBool(TRUE)
            ELSE IF lastOp.var.val = 0 THEN lastOp.kind = "ok" /\ lastOp.val = SBool(FALSE)
            ELSE ~(lastOp.kind = "ok" /\ lastOp.val.tag = "Bool")

\* C19: the consuming conversion of a union whose discriminant is not one of
\* the enumerated ones panics and yields no SmartVariant, and panics on no
\* enumerated discriminant.
C19_UnknownDiscriminantPanics ==
    lastOp.op = "into_value" =>
        (lastOp.kind = "panic" <=> lastOp.var.vt \notin Enumerated)

\* C19 witness: a union of discriminant VT_ARRAY | VT_I4 was converted and the
\* conversion panicked.
C19_Witness ==
    /\ lastOp.op = "into_value"
    /\ lastOp.var.vt = VT_ARRAY + VT_I4
    /\ lastOp.kind = "panic"
    /\ \A i \in USlots : ~variants[i].live

\* C20: converting a Text makes one SysAllocStringLen; when it answers a buffer
\* the union is VT_BSTR with that buffer holding the UTF-16 encoding of the
\* text; when it answers NULL the failure is returned to the caller as an error
\* value, no union is left and no buffer was allocated.  As stated by the
\* specification.
C20_TextAllocation ==
    lastOp.op = "into_union" /\ lastOp.x.tag = "Text" =>
        /\ Cardinality(EventsNamed("SysAllocStringLen")) = 1
        /\ \A i \in EventsNamed("SysAllocStringLen") :
                IF events[i].h # NULL
                THEN /\ lastOp.kind = "ok"
                     /\ lastOp.var = [vt |-> VT_BSTR, val |-> events[i].h]
                     /\ heap[events[i].h] =
                            [st |-> "live", data |-> encode_utf16(lastOp.x.text)]
                ELSE /\ lastOp.kind = "err"
                     /\ \A u \in USlots : ~variants[u].live

\* The variants that hold a pointer, beside their discriminants.
ReferenceTags == {"IDispatch", "IUnknown", "Variant", "Array", "ByRef"}

\* C21: converting a pointer variant (IDispatch, IUnknown, Variant, Array,
\* ByRef) into an AutoVariant stores the same pointer under the discriminant of
\* the variant and makes no foreign call: no AddRef and no Release on the
\* object, whose count is what it was.
C21_PointerCopied ==
    lastOp.op = "into_union" /\ lastOp.x.tag \in ReferenceTags =>
        /\ lastOp.kind = "ok"
        /\ lastOp.var.val = lastOp.x.val
        /\ <<lastOp.x.tag, lastOp.var.vt>> \in VariantTable
        /\ events = <<>>
        /\ \E u \in USlots : variants[u].live /\ variants[u].var = lastOp.var

\* C21 witness: an IDispatch holding an object was converted, and the union
\* holds the object under VT_DISPATCH.
C21_Witness ==
    /\ lastOp.op = "into_union"
    /\ lastOp.x.tag = "IDispatch"
    /\ lastOp.x.val \in Objects
    /\ lastOp.var = [vt |-> VT_DISPATCH, val |-> lastOp.x.val]
    /\ events = <<>>

\* The position of the first terminator of a source, counted from 1; 0 when it
\* has none.
FirstTerminator(data) ==
    IF \E i \in 1..Len(data) : data[i] = 0
    THEN CHOOSE i \in 1..Len(data) : data[i] = 0 /\ \A j \in 1..(i - 1) : data[j] # 0
    ELSE 0

\* C22: SysAllocString on a source that holds a terminator succeeds unless the
\* allocator is exhausted, and the handle then holds the units before the first
\* terminator (its length is the index of that terminator, zero for a leading
\* one); on a source with no terminator it fails with
\* NullTerminatedStringRequiredError, makes no foreign call and allocates
\* nothing.
C22_AllocateToTerminator ==
    lastOp.op = "SysAllocString" =>
        LET first == FirstTerminator(lastOp.src.data)
        IN  IF first > 0
            THEN /\ Len(events) = 1 /\ events[1].ev = "SysAllocString"
                 /\ lastOp.ok <=> events[1].h # NULL
                 /\ lastOp.ok =>
                        /\ lastOp.ptr = events[1].h
                        /\ heap[lastOp.ptr].st = "live"
                        /\ Len(heap[lastOp.ptr].data) = first - 1
                        /\ heap[lastOp.ptr].data = SubSeq(lastOp.src.data, 1, first - 1)
            ELSE /\ ~lastOp.ok
                 /\ lastOp.err = "NullTerminatedStringRequiredError"
                 /\ lastOp.ptr = NULL
                 /\ events = <<>>

\* C22 witness: "A\0B" was allocated and the handle holds "A".
C22_Witness ==
    /\ lastOp.op = "SysAllocString"
    /\ lastOp.src.data = <<65, 0, 66>>
    /\ lastOp.ok
    /\ heap[lastOp.ptr] = [st |-> "live", data |-> <<65>>]

\* C23: SysAllocStringLen on a source within the u32 limit gives a handle that
\* holds exactly the units of the source, embedded terminators included (the
\* empty source gives a live handle of length zero), and a text converted to
\* an AutoBSTR and back to a String is the text it was.  As stated by the
\* specification.
C23_ExactCopyAndRoundTrip ==
    /\ lastOp.op = "SysAllocStringLen" /\ lastOp.ok =>
            /\ heap[lastOp.ptr].st = "live"
            /\ Len(heap[lastOp.ptr].data) = Len(lastOp.src.data)
            /\ heap[lastOp.ptr].data = lastOp.src.data
    /\ lastOp.op = "round_trip" /\ lastOp.ok =>
            /\ lastOp.content = encode_utf16(lastOp.text)
            /\ lastOp.ret = lastOp.text

\* C24: each cause of failure of an allocation has its own error value:
\* SysAllocStringLen answers SourceStringTooLongError exactly for a source over
\* the u32 limit, before any foreign call, and BStrAllocationError when the
\* foreign allocator returns NULL; SysAllocString answers BStrAllocationError
\* when the foreign allocator returns NULL; a NULL of the allocator is never
\* answered with NullTerminatedStringRequiredError.  As stated by the
\* specification.
C24_OwnErrorPerCause ==
    LET exhausted == events # <<>> /\ events[1].h = NULL
    IN  /\ lastOp.op = "SysAllocStringLen" =>
            /\ (~lastOp.ok /\ lastOp.err = "SourceStringTooLongError") <=> lastOp.src.long
            /\ lastOp.src.long => events = <<>>
            /\ exhausted => ~lastOp.ok /\ lastOp.err = "BStrAllocationError"
        /\ lastOp.op = "SysAllocString" =>
            (exhausted => ~lastOp.ok /\ lastOp.err = "BStrAllocationError")
        /\ lastOp.op \in {"SysAllocStringLen", "SysAllocString"} /\ exhausted =>
            lastOp.err # "NullTerminatedStringRequiredError"

\* The bytes of the buffer of a handle of `len` units: the 4-byte length before
\* the address of the handle, the units and the 2-byte terminator.
BufferBytes(bstr, len) == (Addr(bstr) - 4)..(Addr(bstr) + 2 * len + 1)

\* The source and the buffer of the handle share a byte.  A source of more than
\* u32::MAX units reaches past every buffer that starts after it.
SharesByte(bstr, len, src) ==
    /\ bstr # NULL
    /\ \E b \in BufferBytes(bstr, len) :
            /\ src.addr <= b
            /\ src.long \/ b <= src.addr + 2 * Len(src.data) - 1

\* C26: bstr_src_intersection is true exactly when the bytes of the source
\* [src, src + 2*len(src) - 1] and the bytes of the buffer of the handle
\* [bstr - 4, bstr + 2*SysStringLen(bstr) + 1] share a byte, wherever the two
\* lie; it is false for an empty source and for a null handle, and for ranges
\* that touch without sharing a byte.  As stated by the specification.
C26_IntersectionIsSharedByte ==
    lastOp.op = "bstr_src_intersection" =>
        (lastOp.ret <=> SharesByte(lastOp.bstr, lastOp.len, lastOp.src))

ReAllocOps == {"SysReAllocString", "SysReAllocStringLen"}

\* C25: SysReAllocString and SysReAllocStringLen fail with InvalidPointerError
\* on a null handle and on a source that overlaps the buffer of the handle,
\* with NullTerminatedStringRequiredError (SysReAllocString) on a source
\* without terminator and with SourceStringTooLongError (SysReAllocStringLen)
\* on a source over the u32 limit; in each of these cases no foreign call is
\* made and the handle stays live with the content it had.  Otherwise exactly
\* one foreign reallocation is made, and on success the handle returned holds
\* the new content (length 0 for an empty source).  As stated by the
\* specification.
C25_ReAllocRejectsBeforeForeignCall ==
    lastOp.op \in ReAllocOps =>
        LET src == lastOp.src
            first == FirstTerminator(src.data)
            invalid == \/ lastOp.bstr = NULL
                       \/ SharesByte(lastOp.bstr, Len(lastOp.before.data), src)
            unterminated == lastOp.op = "SysReAllocString" /\ first = 0
            toolong == lastOp.op = "SysReAllocStringLen" /\ src.long
            content == IF lastOp.op = "SysReAllocString"
                       THEN SubSeq(src.data, 1, first - 1) ELSE src.data
        IN  IF invalid \/ unterminated \/ toolong
            THEN /\ ~lastOp.ok
                 /\ \/ invalid /\ lastOp.err = "InvalidPointerError"
                    \/ unterminated /\ lastOp.err = "NullTerminatedStringRequiredError"
                    \/ toolong /\ lastOp.err = "SourceStringTooLongError"
                 /\ events = <<>>
                 /\ lastOp.bstr # NULL =>
                        /\ heap[lastOp.bstr] = lastOp.before
                        /\ lastOp.before.st = "live"
                        /\ lastOp.bstr \in raw
            ELSE /\ events = <<[ev |-> lastOp.op, h |-> lastOp.bstr]>>
                 /\ lastOp.ok =>
                        /\ heap[lastOp.ptr] = [st |-> "live", data |-> content]
                        /\ src.data = <<>> => Len(heap[lastOp.ptr].data) = 0

C28_NullAccessAsserts ==
    /\ lastOp.op = "access" /\ lastOp.ptr = NULL =>
            lastOp.kind = "panic" /\ events = <<>>
    /\ \A i \in 1..Len(events) : events[i].ev = "call_through" => events[i].h # NULL

\* C29: when invoke returns after Invoke failed, everything the callee handed
\* back has been released: the strings of the exception record
\* (bstrDescription, bstrSource, bstrHelpFile) are freed, each once, and a
\* text left in the result union is freed (the union is cleared).  As stated
\* by the specification.
C29_ExceptionRecordReleased ==
    lastOp.op = "invoke" /\ lastOp.inv.called /\ ~SUCCEEDED(lastOp.inv.hresult) =>
        /\ \A p \in {lastOp.inv.bstrDescription, lastOp.inv.bstrSource,
                     lastOp.inv.bstrHelpFile} \ {NULL} :
                heap[p].st = "freed" /\ Cardinality(EventsAt(Free(p))) = 1
        /\ lastOp.inv.result.vt = VT_BSTR => heap[lastOp.inv.result.val].st = "freed"

\* C30: value_set first clears the union (the one VariantClear of a union that
\* was not empty comes before anything is stored) and then stores under the
\* discriminant of the first branch whose type is the type of the value: an
\* f64 always gives VT_R8, an i32 VT_I4 and a u32 VT_UI4, whatever name the
\* caller wrote the type with, so VT_DATE, VT_ERROR, VT_INT and VT_UINT are
\* never stored; a value of a type no branch names gives VT_EMPTY with a zero
\* payload.
C30_FirstMatchingBranch ==
    lastOp.op = "value_set" =>
        LET id == TypeIdOf(lastOp.ty)
            named == {k \in 1..Len(ValueSetBranches) : TypeIdOf(ValueSetBranches[k][1]) = id}
            sets == EventsNamed("value_set")
            clears == EventsNamed("VariantClear")
        IN  /\ Cardinality(sets) = 1
            /\ Cardinality(clears) = IF lastOp.var.vt # VT_EMPTY THEN 1 ELSE 0
            /\ \A c \in clears : events[c].h = lastOp.var.vt /\ \A t \in sets : c < t
            /\ id = "f64" => lastOp.after.vt = VT_R8
            /\ id = "i32" => lastOp.after.vt = VT_I4
            /\ id = "u32" => lastOp.after.vt = VT_UI4
            /\ lastOp.after.vt \notin {VT_DATE, VT_ERROR, VT_INT, VT_UINT}
            /\ named = {} => lastOp.after = [vt |-> VT_EMPTY, val |-> 0]
            /\ \A k \in named :
                    (\A j \in named : k <= j) => lastOp.after.vt = ValueSetBranches[k][2]
            /\ \A u \in USlots : variants[u].live => variants[u].var = lastOp.after

\* C30 witness: a DATE was stored into a union that held an object; the union
\* was cleared first and holds VT_R8.
C30_Witness ==
    /\ lastOp.op = "value_set"
    /\ lastOp.ty = "DATE"
    /\ lastOp.var.vt = VT_DISPATCH
    /\ lastOp.after = [vt |-> VT_R8, val |-> 7]
    /\ EventsNamed("VariantClear") # {}

=============================================================================
